---- MODULE Spec2Model ----
(***************************************************************************)
(* Batch file operations of src/logic/file_operations.py (FileOperations). *)
(*                                                                         *)
(* A file or folder name is a sequence of one-character strings, a path a  *)
(* sequence of names relative to the directory the operation is given, and *)
(* the filesystem a function from the paths that exist to their kind and   *)
(* identity.  The filesystem is POSIX-like: names are case-sensitive and   *)
(* os.rename replaces an existing file.                                    *)
(*                                                                         *)
(* Every operation is one action that runs the whole handler.  What the    *)
(* handler cannot control is an input of the action: the number of reads   *)
(* of the cancellation flag that see it clear (the flag is set by another  *)
(* thread and never cleared during a run) and the filesystem calls that    *)
(* raise OSError.                                                          *)
(***************************************************************************)
EXTENDS Integers, Sequences, FiniteSets, TLC

VARIABLES
    fs,        \* the filesystem under the root directory
    fs0,       \* the filesystem when the last run started
    last,      \* the last run: request, returned count, log, callbacks
    prev,      \* the run before the last
    left,      \* runs still allowed in this behaviour
    lsorder,   \* the order in which the platform lists a directory
    rootslash, \* whether the root path string ends with a separator
    host       \* the application window: its thread, flag, timers, dialogs

vars == <<fs, fs0, last, prev, left, lsorder, rootslash, host>>

---------------------------------------------------------------------------
(* Bounds of the model *)

\* The cancellation flag is seen set at read 0..MaxCancel, or never.
MaxCancel == 3
\* The filesystem call that raises OSError is call 1..MaxFail, or none.
MaxFail == 2
\* Worker threads started by the host in one behaviour.
MaxThreads == 2
\* Loop iterations a worker thread is to make, at most.
MaxItems == 2

---------------------------------------------------------------------------
(* Characters and names *)

\* The characters of the model in code-point order (str comparison).
CharOrder ==
    << "\t", "\n", " ", "(", ",", ".", "/", "0", "1", "2", "3", "4", "5", "6", "7", "8", "9",
       ":", "?", "A", "D", "F", "G", "I", "J", "L", "N", "P", "S", "X", "\\",
       "_", "a", "b", "c", "d", "e", "f", "g", "h", "i", "j", "k", "l", "m",
       "n", "o", "p", "q", "r", "s", "t", "u", "v", "w", "x", "y", "z", "²" >>

Ord(c) == CHOOSE i \in 1..Len(CharOrder) : CharOrder[i] = c

UpperChars == << "A", "D", "F", "G", "I", "J", "L", "N", "P", "S", "X" >>
LowerChars == << "a", "d", "f", "g", "i", "j", "l", "n", "p", "s", "x" >>

\* str.lower() on one character.
LowerChar(c) ==
    IF \E i \in 1..Len(UpperChars) : UpperChars[i] = c
    THEN LowerChars[CHOOSE i \in 1..Len(UpperChars) : UpperChars[i] = c]
    ELSE c

Lower(s) == [i \in 1..Len(s) |-> LowerChar(s[i])]

Digits == << "0", "1", "2", "3", "4", "5", "6", "7", "8", "9" >>

IsDigit(c) == \E i \in 1..10 : Digits[i] = c

\* str(n) for n >= 0.
RECURSIVE Str(_)
Str(n) == IF n < 10 THEN << Digits[n + 1] >>
          ELSE Str(n \div 10) \o << Digits[(n % 10) + 1] >>

\* a < b for two strings, as Python compares str.
RECURSIVE NameLess(_, _)
NameLess(a, b) ==
    IF b = << >> THEN FALSE
    ELSE IF a = << >> THEN TRUE
    ELSE IF Head(a) = Head(b) THEN NameLess(Tail(a), Tail(b))
    ELSE Ord(Head(a)) < Ord(Head(b))

\* A sort that puts the greatest name first.
RECURSIVE SortNamesDescending(_)
SortNamesDescending(S) ==
    IF S = {} THEN << >>
    ELSE LET m == CHOOSE x \in S : \A y \in S : x = y \/ NameLess(y, x)
         IN  << m >> \o SortNamesDescending(S \ {m})

\* sorted(S) for a set of distinct names.
RECURSIVE SortNames(_)
SortNames(S) ==
    IF S = {} THEN << >>
    ELSE LET m == CHOOSE x \in S : \A y \in S : x = y \/ NameLess(x, y)
         IN  << m >> \o SortNames(S \ {m})

Reverse(s) == [i \in 1..Len(s) |-> s[Len(s) + 1 - i]]

\* Index of the last "." of a name, 0 when it has none.
LastDot(s) ==
    IF \E i \in 1..Len(s) : s[i] = "."
    THEN CHOOSE i \in 1..Len(s) : s[i] = "." /\ \A j \in (i + 1)..Len(s) : s[j] # "."
    ELSE 0

\* os.path.splitext(name): the extension starts at the last dot, unless only
\* dots precede it.
SplitExt(s) ==
    LET d == LastDot(s)
    IN  IF d > 0 /\ \E j \in 1..(d - 1) : s[j] # "."
        THEN << SubSeq(s, 1, d - 1), SubSeq(s, d, Len(s)) >>
        ELSE << s, << >> >>

\* pathlib's PurePath.suffix: the last dot neither first nor last in the name.
PathSuffix(s) ==
    LET d == LastDot(s)
    IN  IF 1 < d /\ d < Len(s) THEN SubSeq(s, d, Len(s)) ELSE << >>

\* pathlib's PurePath.stem.
PathStem(s) ==
    LET d == LastDot(s)
    IN  IF 1 < d /\ d < Len(s) THEN SubSeq(s, 1, d - 1) ELSE s

IMAGE_EXTENSIONS ==
    { << ".", "j", "p", "g" >>, << ".", "j", "p", "e", "g" >>,
      << ".", "p", "n", "g" >>, << ".", "b", "m", "p" >>,
      << ".", "g", "i", "f" >>, << ".", "t", "i", "f", "f" >>,
      << ".", "w", "e", "b", "p" >>, << ".", "s", "v", "g" >>,
      << ".", "i", "c", "o" >> }

\* os.path.splitext(f)[1].lower() in IMAGE_EXTENSIONS
IsImageName(s) == Lower(SplitExt(s)[2]) \in IMAGE_EXTENSIONS

---------------------------------------------------------------------------
(* The filesystem *)

Root == << >>

Parent(p) == SubSeq(p, 1, Len(p) - 1)
BaseName(p) == p[Len(p)]
Join(d, n) == Append(d, n)

IsUnder(d, p) == Len(d) < Len(p) /\ SubSeq(p, 1, Len(d)) = d
IsAtOrUnder(d, p) == p = d \/ IsUnder(d, p)

Exists(f, p) == p = Root \/ p \in DOMAIN f
IsDir(f, p) == p = Root \/ (p \in DOMAIN f /\ f[p].kind = "dir")
IsFile(f, p) == p \in DOMAIN f /\ f[p].kind = "file"

ChildNames(f, d) == { BaseName(p) : p \in { q \in DOMAIN f : Parent(q) = d /\ Len(q) = Len(d) + 1 } }

\* os.listdir(d): the names in d, in the order the platform lists them.
ListDir(f, d, order) ==
    IF order = "asc" THEN SortNames(ChildNames(f, d))
    ELSE Reverse(SortNames(ChildNames(f, d)))

\* A move that takes the entry and leaves behind what is under it.
RelocateEntry(f, src, dst) ==
    [ q \in { p \in DOMAIN f : ~IsAtOrUnder(src, p) /\ ~IsAtOrUnder(dst, p) } \cup {dst} |->
        IF q = dst THEN f[src] ELSE f[q] ]

\* The subtree at src, moved to dst; whatever was at dst is replaced.
Relocate(f, src, dst) ==
    LET moved == { p \in DOMAIN f : IsAtOrUnder(src, p) }
        gone  == { p \in DOMAIN f : IsAtOrUnder(dst, p) }
        To(p) == dst \o SubSeq(p, Len(src) + 1, Len(p))
        stay  == (DOMAIN f \ moved) \ gone
    IN  [ q \in stay \cup { To(p) : p \in moved } |->
            IF q \in stay THEN f[q]
            ELSE f[CHOOSE p \in moved : To(p) = q] ]

Remove(f, p) == [ q \in DOMAIN f \ {p} |-> f[q] ]

\* os.rename(src, dst) / Path.rename: [ok, fs].  A file replaces an existing
\* file, a directory an existing empty directory; anything else raises.
OsRename(f, src, dst) ==
    IF ~Exists(f, src) \/ src = Root \/ ~IsDir(f, Parent(dst)) \/ IsAtOrUnder(src, dst)
    THEN [ok |-> FALSE, fs |-> f]
    ELSE IF ~Exists(f, dst) THEN [ok |-> TRUE, fs |-> Relocate(f, src, dst)]
    ELSE IF IsFile(f, src) /\ IsFile(f, dst) THEN [ok |-> TRUE, fs |-> Relocate(f, src, dst)]
    ELSE IF IsDir(f, src) /\ IsDir(f, dst) /\ ChildNames(f, dst) = {}
         THEN [ok |-> TRUE, fs |-> Relocate(f, src, dst)]
    ELSE [ok |-> FALSE, fs |-> f]

\* shutil.move(src, dst): into dst when dst is a directory, refusing an
\* existing entry there; else os.rename.
ShutilMove(f, src, dst) ==
    IF IsDir(f, dst) /\ dst # src
    THEN IF Exists(f, Join(dst, BaseName(src)))
         THEN [ok |-> FALSE, fs |-> f]
         ELSE OsRename(f, src, Join(dst, BaseName(src)))
    ELSE OsRename(f, src, dst)

\* A removal that reports success and removes nothing.
OsRmdirKeeps(f, p) == [ok |-> TRUE, fs |-> f]

\* os.rmdir(p): only an empty directory.
OsRmdir(f, p) ==
    IF p # Root /\ IsDir(f, p) /\ ChildNames(f, p) = {}
    THEN [ok |-> TRUE, fs |-> Remove(f, p)]
    ELSE [ok |-> FALSE, fs |-> f]

\* os.walk(top) top-down: the directories at and under d, parents first.
RECURSIVE WalkFrom(_, _, _, _)
WalkDirs(f, d, order) ==
    LET names == ListDir(f, d, order)
        subs  == SelectSeq(names, LAMBDA n : IsDir(f, Join(d, n)))
    IN  << d >> \o WalkFrom(f, d, subs, order)
WalkFrom(f, d, subs, order) ==
    IF subs = << >> THEN << >>
    ELSE WalkDirs(f, Join(d, Head(subs)), order) \o WalkFrom(f, d, Tail(subs), order)

---------------------------------------------------------------------------
(* A run: the inputs it cannot control, and what it leaves behind *)

\* stopAt: the reads of stop_event.is_set() that return False before the
\* flag is set (-1: it is never set).  failAt: the filesystem call, counted
\* from 1, that raises OSError (0: none does).
Cfg(dry, stopAt, failAt, order, slash) ==
    [dry |-> dry, stopAt |-> stopAt, failAt |-> failAt, order |-> order, slash |-> slash]

StartRun(f) ==
    [fs |-> f, log |-> << >>, status |-> << >>, events |-> << >>,
     count |-> 0, reads |-> 0, calls |-> 0, flag |-> FALSE, listed |-> FALSE,
     success_output |-> << >>, error_output |-> << >>, results |-> << >>, pc |-> "run"]

\* os.walk(...) / Path.rglob(...) / os.path.isdir(...): the run reads the tree.
Listing(st) == [st EXCEPT !.listed = TRUE]

\* A flag that no read ever finds set.
StopIsSetNever(st, cfg) == FALSE

\* stop_event.is_set() as the run's next read sees it.
StopIsSet(st, cfg) == cfg.stopAt >= 0 /\ st.reads >= cfg.stopAt

ReadStop(st) == [st EXCEPT !.reads = @ + 1]

\* logger.info / success / warning / error: the level, which message, whether
\* it starts with "[DRY RUN] ", and the names or numbers it shows.
Log(st, lvl, key, pfx, arg) ==
    [st EXCEPT !.log = Append(@, [lvl |-> lvl, key |-> key, pfx |-> pfx, arg |-> arg])]

\* status_callback(message, percent)
Status(st, key, pct) ==
    [st EXCEPT !.status = Append(@, [key |-> key, pct |-> pct])]

\* What was done with one item: the destination first wanted and the one
\* used, whether each existed at that moment, and the identities of the
\* entries at the source and at the wanted destination.
Event(st, op, act, src, want, dst) ==
    [st EXCEPT !.events = Append(@,
        [op |-> op, act |-> act, src |-> src, want |-> want, dst |-> dst,
         kind |-> IF IsDir(st.fs, src) THEN "dir" ELSE IF IsFile(st.fs, src) THEN "file" ELSE "none",
         wantWas |-> Exists(st.fs, want),
         dstWas |-> Exists(st.fs, dst),
         srcId |-> IF src \in DOMAIN st.fs THEN st.fs[src].id ELSE 0,
         wantId |-> IF want \in DOMAIN st.fs THEN st.fs[want].id ELSE 0])]

\* A filesystem call that changes the disk: it raises OSError when it is the
\* call chosen to fail, or when the call itself refuses.
Call(st, cfg, res) ==
    IF st.calls + 1 = cfg.failAt
    THEN [ok |-> FALSE, st |-> [st EXCEPT !.calls = @ + 1]]
    ELSE [ok |-> res.ok, st |-> [st EXCEPT !.calls = @ + 1, !.fs = res.fs]]

\* int((i + 1) / total * 100) if total > 0 else 0, for the 0-based index i.
Percent(i, total) == IF total > 0 THEN ((i + 1) * 100) \div total ELSE 0

\* A finally block that reports "done" whatever the flag.
FinallyAlwaysDone(st, cfg, endKey) ==
    Log(Status(ReadStop(st), "done", 100), "info", endKey, cfg.dry, << >>)

\* The finally block of every operation: "done" unless the flag is set.
Finally(st, cfg, endKey) ==
    LET s == ReadStop(st)
        t == IF StopIsSet(st, cfg) THEN s ELSE Status(s, "done", 100)
    IN  Log(t, "info", endKey, cfg.dry, << >>)

\* if not dry_run: logger.warning("... ВНИМАНИЕ ...") at the start of a run.
Attention(h1, cfg) == IF cfg.dry THEN h1 ELSE Log(h1, "warning", "attention", FALSE, << >>)

\* return inside the try block after the flag was seen set.
Cancelled(st, key) ==
    [Status(Log(st, "warning", key, FALSE, << >>), "cancelled", 0) EXCEPT !.pc = "returned"]

---------------------------------------------------------------------------
(* organize_folders: extraction from the folders named "1" *)

ONE == << "1" >>

\* x.count(os.sep) of the path string of p, less that of the root string: a
\* root written with a trailing separator is joined to its child without
\* another one.
SepCount(p, slash) == IF slash /\ Len(p) >= 1 THEN Len(p) - 1 ELSE Len(p)

\* sorted(dirs, key=lambda x: x.count(os.sep), reverse=True): deepest first,
\* equal keys in the order of the walk.
RECURSIVE SortByDepthFrom(_, _, _)
SortByDepthFrom(dirs, slash, k) ==
    IF k < 0 THEN << >>
    ELSE SelectSeq(dirs, LAMBDA d : SepCount(d, slash) = k) \o SortByDepthFrom(dirs, slash, k - 1)
SortByDepth(dirs, slash) ==
    LET top == IF dirs = << >> THEN 0
               ELSE CHOOSE k \in 0..20 : /\ \E i \in 1..Len(dirs) : SepCount(dirs[i], slash) = k
                                         /\ \A i \in 1..Len(dirs) : SepCount(dirs[i], slash) <= k
    IN  SortByDepthFrom(dirs, slash, top)

\* [dp for dp, dn, _ in os.walk(root_path) if "1" in dn]
CandidateDirs(f, order) ==
    SelectSeq(WalkDirs(f, Root, order), LAMBDA d : IsDir(f, Join(d, ONE)))

\* if os.path.exists(dst_item_path): the conflict check of a move.
MoveConflict(f, dst) == Exists(f, dst)

\* if not dry_run: shutil.move(...) / os.rmdir(...)
OrganizeWrites(cfg) == ~cfg.dry

\* shutil.move returned, or raised OSError.
OrganizeMove(st, cfg, item, src, dst, r) ==
    IF r.ok
    THEN [Event(Log(st, "success", "moved", cfg.dry, << item >>), "extract", "moved", src, dst, dst)
            EXCEPT !.fs = r.st.fs, !.calls = r.st.calls]
    ELSE [Event(Log(st, "error", "move_failed", FALSE, << item >>), "extract", "failed", src, dst, dst)
            EXCEPT !.calls = r.st.calls]

\* One item of a "1" folder: skip on conflict, else move it to the parent.
OrganizeItem(st, cfg, folder1, parent, item) ==
    LET src == Join(folder1, item)
        dst == Join(parent, item)
    IN  IF MoveConflict(st.fs, dst)
        THEN Event(Log(st, "warning", "conflict", FALSE, << item >>), "extract", "conflict", src, dst, dst)
        ELSE IF ~OrganizeWrites(cfg)
        THEN Event(Log(st, "success", "moved", cfg.dry, << item >>), "extract", "simulated", src, dst, dst)
        ELSE OrganizeMove(st, cfg, item, src, dst, Call(st, cfg, ShutilMove(st.fs, src, dst)))

\* for item_name in items_in_folder_1, with the flag read before each item.
RECURSIVE OrganizeItems(_, _, _, _, _)
OrganizeItems(st, cfg, folder1, parent, items) ==
    IF items = << >> THEN st
    ELSE IF StopIsSet(st, cfg) THEN Cancelled(ReadStop(st), "cancelled_moving")
    ELSE OrganizeItems(OrganizeItem(ReadStop(st), cfg, folder1, parent, Head(items)),
                       cfg, folder1, parent, Tail(items))

\* The identities of the entries directly inside dir.
Inside(f, dir) == { f[Join(dir, n)].id : n \in ChildNames(f, dir) }

\* The last event of the run, with what os.listdir(folder_1_path) found
\* after the moves noted on it (history only).
NoteInside(st, ids) ==
    LET k == Len(st.events)
    IN  [st EXCEPT !.events[k] = st.events[k] @@ [inside |-> ids]]

\* A removal that does not look whether the folder is empty.
IsEmptyAlways(f, folder1) == TRUE

\* if not os.listdir(folder_1_path)
IsEmpty(f, folder1) == ChildNames(f, folder1) = {}

\* os.rmdir returned, or raised OSError.
OrganizeRmdir(st, cfg, folder1, r) ==
    IF r.ok
    THEN [NoteInside(Event(Log(st, "success", "removed", cfg.dry, folder1),
                           "extract", "rmdir", folder1, folder1, folder1),
                     Inside(st.fs, folder1))
            EXCEPT !.fs = r.st.fs, !.calls = r.st.calls, !.count = @ + 1]
    ELSE [Log(st, "error", "rmdir_failed", FALSE, folder1) EXCEPT !.calls = r.st.calls]

\* After the moves: delete the "1" folder when it is empty and count it.
OrganizeRemove(st, cfg, folder1) ==
    IF ~IsDir(st.fs, folder1)
    THEN Log(st, "error", "rmdir_failed", FALSE, folder1)
    ELSE IF ~IsEmpty(st.fs, folder1)
    THEN NoteInside(Event(Log(st, "warning", "not_empty", FALSE, folder1),
                          "extract", "kept", folder1, folder1, folder1),
                    Inside(st.fs, folder1))
    ELSE IF ~OrganizeWrites(cfg)
    THEN [NoteInside(Event(Log(st, "success", "removed", cfg.dry, folder1),
                           "extract", "rmdir_simulated", folder1, folder1, folder1),
                     Inside(st.fs, folder1))
            EXCEPT !.count = @ + 1]
    ELSE OrganizeRmdir(st, cfg, folder1, Call(st, cfg, OsRmdir(st.fs, folder1)))

\* After the moves of a folder, unless the run returned in them.
OrganizeMoved(s3, cfg, folder1) ==
    IF s3.pc = "returned" THEN s3 ELSE OrganizeRemove(s3, cfg, folder1)

\* items_in_folder_1 = os.listdir(folder_1_path), and the moves.
OrganizeListed(s2, cfg, dirpath, folder1, items) ==
    OrganizeMoved(IF items = << >> THEN s2
                  ELSE OrganizeItems(Log(s2, "info", "moving", cfg.dry, << Str(Len(items)) >>),
                                     cfg, folder1, dirpath, items),
                  cfg, folder1)

\* A candidate directory after its status callback.
OrganizeFound(s2, cfg, dirpath, folder1) ==
    IF ~IsDir(s2.fs, folder1)
    THEN Log(s2, "error", "read_failed", FALSE, folder1)
    ELSE OrganizeListed(s2, cfg, dirpath, folder1, ListDir(s2.fs, folder1, cfg.order))

\* One candidate directory: list its "1" folder, move the items, remove it.
OrganizeDir(st, cfg, dirpath, i, total) ==
    OrganizeFound([Status(Log(st, "info", "found", cfg.dry, Join(dirpath, ONE)),
                          "processing", Percent(i, total))
                     EXCEPT !.flag = TRUE],
                  cfg, dirpath, Join(dirpath, ONE))

\* for i, dirpath in enumerate(sorted(...)), with the flag read before each.
RECURSIVE OrganizeDirs(_, _, _, _, _)
OrganizeDirs(st, cfg, dirs, i, total) ==
    IF dirs = << >> \/ st.pc = "returned" THEN st
    ELSE IF StopIsSet(st, cfg) THEN Cancelled(ReadStop(st), "cancelled")
    ELSE OrganizeDirs(OrganizeDir(ReadStop(st), cfg, Head(dirs), i, total),
                      cfg, Tail(dirs), i + 1, total)

\* The loop over the candidate directories, deepest first.
OrganizeWalk(h3, cfg, all_dirs) ==
    OrganizeDirs(Listing(h3), cfg, SortByDepth(all_dirs, cfg.slash), 0, Len(all_dirs))

\* After the loop: the summary of the run, unless it returned in the loop.
OrganizeSummary(s, cfg) ==
    IF s.pc = "returned" THEN s
    ELSE IF ~s.flag THEN Log(s, "warning", "none_found", FALSE, << >>)
    ELSE IF s.count > 0 THEN Log(s, "success", "summary", cfg.dry, << Str(s.count) >>)
    ELSE Log(s, "warning", "none_removed", cfg.dry, << >>)

\* FileOperations.organize_folders(root_path, ..., dry_run)
organize_folders(f, cfg) ==
    Finally(OrganizeSummary(OrganizeWalk(Log(Attention(Log(StartRun(f), "info", "start_extract",
                                                           cfg.dry, << >>), cfg),
                                             "info", "target", FALSE, << >>),
                                         cfg, CandidateDirs(f, cfg.order)),
                            cfg),
            cfg, "end_extract")

---------------------------------------------------------------------------
(* rename_images_sequentially: image files renamed 1.ext .. N.ext *)

\* if conflict_count > 100: the suffix search gives up.
CONFLICT_LIMIT == 100

NONE == << >>

CONFLICT == << "_", "c", "o", "n", "f", "l", "i", "c", "t", "_" >>

\* f"{base}_conflict_{conflict_count}{ext}"
ConflictName(base, n, ext) == base \o CONFLICT \o Str(n) \o ext

\* The while loop of the conflict branch, entered with conflict_count = n and
\* new_path existing: the name to use, or NONE when the search gives up.  An
\* iteration builds the name of suffix k and raises conflict_count to k + 1;
\* it breaks when k + 1 > CONFLICT_LIMIT, and otherwise the loop condition
\* tests the name just built.  The loop so ends at the first k below the limit
\* whose name is free, and gives up when there is none.
ResolveConflict(f, dir, base, ext, n) ==
    LET tested == { k \in n..(CONFLICT_LIMIT - 1) :
                      ~Exists(f, Join(dir, ConflictName(base, k, ext))) }
    IN  IF tested = {} THEN NONE
        ELSE ConflictName(base, CHOOSE k \in tested : \A m \in tested : k <= m, ext)

\* The smallest n >= 1 for which the suffixed name is free in dir (history
\* only: the loop above does not use it).
FirstFree(f, dir, base, ext) ==
    LET free == { n \in 1..(CONFLICT_LIMIT + 1) : ~Exists(f, Join(dir, ConflictName(base, n, ext))) }
    IN  IF free = {} THEN 0 ELSE CHOOSE n \in free : \A m \in free : n <= m

\* The last event of the run, with the smallest free suffix noted on it.
NoteFirstFree(st, n) ==
    LET k == Len(st.events)
    IN  [st EXCEPT !.events[k] = st.events[k] @@ [firstFree |-> n]]

\* A sequential rename that never sees its target taken.
RenameConflictNever(f, new_path) == FALSE

\* if os.path.exists(new_path): the conflict check of a sequential rename.
RenameConflict(f, new_path) == Exists(f, new_path)

\* if not dry_run: os.rename(old_path, new_path)
RenameWrites(cfg) == ~cfg.dry

\* sorted([f for f in os.listdir(root) if isfile and image extension])
ImageFiles(f, dir) ==
    SortNames({ n \in ChildNames(f, dir) : IsFile(f, Join(dir, n)) /\ IsImageName(n) })

\* os.rename returned, or raised OSError.
RenameCalled(st, cfg, r, filename, newname, old_path, want, new_path) ==
    IF r.ok
    THEN [Event(Log(st, "success", "renamed", cfg.dry, << filename, newname >>),
                "rename", "renamed", old_path, want, new_path)
            EXCEPT !.fs = r.st.fs, !.calls = r.st.calls, !.count = @ + 1]
    ELSE [Event(Log(st, "error", "rename_failed", FALSE, << filename >>),
                "rename", "failed", old_path, want, new_path)
            EXCEPT !.calls = r.st.calls]

\* The rename itself, once the destination name is chosen.
RenameTo(st, cfg, dir, filename, want, newname) ==
    LET old_path == Join(dir, filename)
        new_path == Join(dir, newname)
    IN  IF ~RenameWrites(cfg)
        THEN [Event(Log(st, "success", "renamed", cfg.dry, << filename, newname >>),
                    "rename", "simulated", old_path, want, new_path)
                EXCEPT !.count = @ + 1]
        ELSE RenameCalled(st, cfg, Call(st, cfg, OsRename(st.fs, old_path, new_path)),
                          filename, newname, old_path, want, new_path)

\* The end of the conflict branch: the search gave up, or chose the name pick.
RenameResolved(st, cfg, dir, filename, new_filename, old_path, new_path, pick) ==
    IF pick = NONE
    THEN Event(Log(st, "error", "too_many_conflicts", FALSE, << new_filename, filename >>),
               "rename", "abandoned", old_path, new_path, new_path)
    ELSE RenameTo(Log(st, "warning", "conflict", FALSE, << new_filename, pick >>),
                  cfg, dir, filename, new_path, pick)

\* The conflict branch: base, ext = os.path.splitext(new_filename).
RenameContested(st, cfg, dir, filename, new_filename, old_path, new_path, parts) ==
    NoteFirstFree(RenameResolved(st, cfg, dir, filename, new_filename, old_path, new_path,
                                 ResolveConflict(st.fs, dir, parts[1], parts[2], 1)),
                  FirstFree(st.fs, dir, parts[1], parts[2]))

\* One image file, its target name being new_filename.
RenameAs(st, cfg, dir, filename, new_filename, old_path, new_path) ==
    IF old_path = new_path
    THEN Event(Log(st, "info", "already_named", FALSE, << filename >>),
               "rename", "same", old_path, new_path, new_path)
    ELSE IF RenameConflict(st.fs, new_path)
    THEN RenameContested(st, cfg, dir, filename, new_filename, old_path, new_path,
                         SplitExt(new_filename))
    ELSE RenameTo(st, cfg, dir, filename, new_path, new_filename)

\* A numbering that starts at 0.
NewFilenameFromZero(filename, index) == Str(index - 1) \o Lower(SplitExt(filename)[2])

\* f"{index}{extension}"
NewFilename(filename, index) == Str(index) \o Lower(SplitExt(filename)[2])

\* One image file at 1-based position index of the sorted list.
RenameFile(st, cfg, dir, filename, index) ==
    RenameAs(st, cfg, dir, filename, NewFilename(filename, index), Join(dir, filename),
             Join(dir, NewFilename(filename, index)))

\* for index, filename in enumerate(image_files, 1), the flag read before each:
\* the iterations over files, the first of them numbered index.  The loop over
\* a list is the loop over its first half followed, unless that returned, by
\* the loop over the rest.
RECURSIVE RenameFiles(_, _, _, _, _)
RenameFiles(st, cfg, dir, files, index) ==
    IF files = << >> \/ st.pc = "returned" THEN st
    ELSE IF Len(files) = 1
    THEN IF StopIsSet(st, cfg) THEN Cancelled(ReadStop(st), "cancelled_renaming")
         ELSE RenameFile(ReadStop(st), cfg, dir, Head(files), index)
    ELSE RenameFiles(RenameFiles(st, cfg, dir, SubSeq(files, 1, Len(files) \div 2), index),
                     cfg, dir, SubSeq(files, Len(files) \div 2 + 1, Len(files)),
                     index + Len(files) \div 2)

\* After the files of a directory: how many of them were renamed.
RenamedInFolder(s4, before) ==
    IF s4.pc = "returned" THEN s4
    ELSE Log(s4, "info", "renamed_in_folder", FALSE, << Str(s4.count - before) >>)

\* A directory with its sorted image files.
RenameListed(st, cfg, dir, image_files, i, total) ==
    IF image_files = << >> THEN st
    ELSE RenamedInFolder(
             RenameFiles([Status(Log(Log(st, "info", "folder", cfg.dry, dir),
                                     "info", "images_found", FALSE, << Str(Len(image_files)) >>),
                                 "processing", Percent(i, total))
                            EXCEPT !.flag = TRUE],
                         cfg, dir, image_files, 1),
             st.count)

\* One directory of the walk: its image files, sorted, renamed in turn.
RenameDir(st, cfg, dir, i, total) ==
    RenameListed(st, cfg, dir, ImageFiles(st.fs, dir), i, total)

\* for i, root in enumerate(subdirs), the flag read before each.
RECURSIVE RenameDirs(_, _, _, _, _)
RenameDirs(st, cfg, dirs, i, total) ==
    IF dirs = << >> \/ st.pc = "returned" THEN st
    ELSE IF StopIsSet(st, cfg) THEN Cancelled(ReadStop(st), "cancelled")
    ELSE RenameDirs(RenameDir(ReadStop(st), cfg, Head(dirs), i, total),
                    cfg, Tail(dirs), i + 1, total)

\* [root for root, _, files in os.walk(directory) if any image among files]
ImageDirs(f, order) ==
    SelectSeq(WalkDirs(f, Root, order),
              LAMBDA d : \E n \in ChildNames(f, d) : IsFile(f, Join(d, n)) /\ IsImageName(n))

\* The walk over the directories that hold images.
RenameWalk(h3, cfg, subdirs) == RenameDirs(Listing(h3), cfg, subdirs, 0, Len(subdirs))

\* After the loop: the summary of the run, unless it returned in the loop.
RenameSummary(s, cfg) ==
    IF s.pc = "returned" THEN s
    ELSE IF ~s.flag THEN Log(s, "warning", "no_images", FALSE, << >>)
    ELSE Log(s, "success", "summary", cfg.dry, << Str(s.count) >>)

\* FileOperations.rename_images_sequentially(directory, ..., dry_run)
rename_images_sequentially(f, cfg) ==
    Finally(RenameSummary(RenameWalk(Log(Attention(Log(StartRun(f), "info", "start_rename",
                                                       cfg.dry, << >>), cfg),
                                         "info", "target", FALSE, << >>),
                                     cfg, ImageDirs(f, cfg.order)),
                          cfg),
            cfg, "end_rename")

---------------------------------------------------------------------------
(* remove_phrase_from_names: a phrase or pattern removed from every name *)

\* A request: the phrase, the case toggle and the regex toggle.
PhraseReq(phrase, cs, rx) == [phrase |-> phrase, case_sensitive |-> cs, use_regex |-> rx]

\* A compile step that accepts every pattern.
CompilesAlways(phrase) == TRUE

\* re.compile(phrase) succeeds.  Of the regex syntax the model knows "." (any
\* character) and "(" (a group, which a pattern of the model never closes).
Compiles(phrase) == \A i \in 1..Len(phrase) : phrase[i] # "("

\* One pattern character against one character of the name.
CharMatches(pc, c, req) ==
    \/ req.use_regex /\ pc = "."
    \/ IF req.case_sensitive THEN pc = c ELSE LowerChar(pc) = LowerChar(c)

\* The phrase (or pattern) matches the name at position i.
MatchesAt(name, i, req) ==
    /\ i + Len(req.phrase) - 1 <= Len(name)
    /\ \A k \in 1..Len(req.phrase) : CharMatches(req.phrase[k], name[i + k - 1], req)

\* str.replace(phrase, "") / re.sub(pattern, "", name): the matches removed,
\* found from the left, none overlapping an earlier one.
RECURSIVE RemoveFrom(_, _, _)
RemoveFrom(name, i, req) ==
    IF i > Len(name) THEN << >>
    ELSE IF MatchesAt(name, i, req) THEN RemoveFrom(name, i + Len(req.phrase), req)
    ELSE << name[i] >> \o RemoveFrom(name, i + 1, req)

WHITESPACE == { " ", "\n", "\t" }

\* A trim that trims nothing.
StripNothing(s) == s

\* str.strip()
RECURSIVE Strip(_)
Strip(s) ==
    IF s = << >> THEN s
    ELSE IF Head(s) \in WHITESPACE THEN Strip(Tail(s))
    ELSE IF s[Len(s)] \in WHITESPACE THEN Strip(SubSeq(s, 1, Len(s) - 1))
    ELSE s

\* target_name_candidate as first computed.
Candidate(name, req) == Strip(RemoveFrom(name, 1, req))

RENAMED_FILE == << "r", "e", "n", "a", "m", "e", "d", "_", "f", "i", "l", "e" >>
RENAMED_FOLDER == << "r", "e", "n", "a", "m", "e", "d", "_", "f", "o", "l", "d", "e", "r" >>

\* if not target_name_candidate: the substitute name, NONE to skip the item.
EmptySubstitute(f, item_path) ==
    IF IsFile(f, item_path) /\ PathSuffix(BaseName(item_path)) # << >>
    THEN RENAMED_FILE \o PathSuffix(BaseName(item_path))
    ELSE IF IsDir(f, item_path) THEN RENAMED_FOLDER
    ELSE NONE

\* if not target_name_candidate: when the substitute is used.
NeedsSubstitute(original_name, cand) == cand = << >>

\* A phrase removal that never sees its target taken.
PhraseConflictNever(f, new_path) == FALSE

\* if new_path.exists(): the conflict check of a phrase removal.
PhraseConflict(f, new_path) == Exists(f, new_path)

\* A phrase removal that renames in a dry run too.
PhraseWritesAlways(cfg) == TRUE

\* if not dry_run: item_path.rename(new_path)
PhraseWrites(cfg) == ~cfg.dry

\* len(str(p)) of the path string of p, less that of the root string.
RECURSIVE PathStrLen(_)
PathStrLen(p) == IF p = << >> THEN 0 ELSE 1 + Len(Head(p)) + PathStrLen(Tail(p))

\* base_path.rglob("*"): the entries of each directory of the walk.
RECURSIVE EntriesOf(_, _, _)
EntriesOf(f, dirs, order) ==
    IF dirs = << >> THEN << >>
    ELSE LET names == ListDir(f, Head(dirs), order)
         IN  [ i \in 1..Len(names) |-> Join(Head(dirs), names[i]) ] \o EntriesOf(f, Tail(dirs), order)
RglobAll(f, order) == EntriesOf(f, WalkDirs(f, Root, order), order)

\* The entries in the order of the enumeration, parents first.
Unsorted(items) == items

\* sorted(items, key=lambda p: len(str(p)), reverse=True): longest first,
\* equal lengths in the order of the enumeration.
RECURSIVE SortByLenFrom(_, _)
SortByLenFrom(items, k) ==
    IF k < 0 THEN << >>
    ELSE SelectSeq(items, LAMBDA p : PathStrLen(p) = k) \o SortByLenFrom(items, k - 1)
SortByLen(items) ==
    LET top == IF items = << >> THEN 0
               ELSE CHOOSE k \in 0..200 : /\ \E i \in 1..Len(items) : PathStrLen(items[i]) = k
                                          /\ \A i \in 1..Len(items) : PathStrLen(items[i]) <= k
    IN  SortByLenFrom(items, top)

\* An entry that is never taken to have its target name already.
SameNameNever(target, original_name) == FALSE

\* if target_name_candidate == original_name: continue
SameName(target, original_name) == target = original_name

\* One entry with its target name decided: conflict check, then the rename.
PhraseRename(st, cfg, item_path, cand, target) ==
    LET original_name == BaseName(item_path)
        new_path == Join(Parent(item_path), target)
        e(s, act) == [s EXCEPT !.events = Append(@,
                        [op |-> "phrase", act |-> act, src |-> item_path,
                         want |-> new_path, dst |-> new_path,
                         kind |-> IF IsDir(st.fs, item_path) THEN "dir"
                                  ELSE IF IsFile(st.fs, item_path) THEN "file" ELSE "none",
                         wantWas |-> Exists(st.fs, new_path),
                         dstWas |-> Exists(st.fs, new_path),
                         srcId |-> IF item_path \in DOMAIN st.fs THEN st.fs[item_path].id ELSE 0,
                         wantId |-> IF new_path \in DOMAIN st.fs THEN st.fs[new_path].id ELSE 0,
                         cand |-> cand, target |-> target])]
    IN  IF SameName(target, original_name) THEN e(st, "same")
        ELSE IF PhraseConflict(st.fs, new_path)
        THEN e(Log(st, "warning", "conflict", FALSE, << original_name, target >>), "conflict")
        ELSE IF ~PhraseWrites(cfg)
        THEN [e(Log(st, "success", "renamed", cfg.dry, << original_name, target >>), "simulated")
                EXCEPT !.count = @ + 1]
        ELSE LET r == Call(st, cfg, OsRename(st.fs, item_path, new_path))
             IN  IF r.ok
                 THEN [e(Log(st, "success", "renamed", cfg.dry, << original_name, target >>), "renamed")
                         EXCEPT !.fs = r.st.fs, !.calls = r.st.calls, !.count = @ + 1]
                 ELSE [e(Log(st, "error", "rename_failed", FALSE, << original_name, target >>), "failed")
                         EXCEPT !.calls = r.st.calls]

\* One entry of the enumeration.
PhraseItem(st, cfg, req, item_path, i, total) ==
    LET original_name == BaseName(item_path)
        s1 == Status(st, "checking", Percent(i, total))
        cand == Candidate(original_name, req)
    IN  IF NeedsSubstitute(original_name, cand)
        THEN LET sub == EmptySubstitute(s1.fs, item_path)
             IN  IF sub = NONE
                 THEN Log(s1, "warning", "skip_empty", FALSE, << original_name >>)
                 ELSE PhraseRename(Log(s1, "warning", "would_be_empty", FALSE, << original_name, sub >>),
                                   cfg, item_path, cand, sub)
        ELSE PhraseRename(s1, cfg, item_path, cand, cand)

\* for i, item_path in enumerate(items_to_process), the flag read before each.
RECURSIVE PhraseItems(_, _, _, _, _, _)
PhraseItems(st, cfg, req, items, i, total) ==
    IF items = << >> THEN st
    ELSE IF StopIsSet(st, cfg) THEN Cancelled(ReadStop(st), "cancelled")
    ELSE PhraseItems(PhraseItem(ReadStop(st), cfg, req, Head(items), i, total),
                     cfg, req, Tail(items), i + 1, total)

\* FileOperations.remove_phrase_from_names(base_path_str, phrase, ...,
\* case_sensitive, use_regex, dry_run)
remove_phrase_from_names(f, cfg, req) ==
    LET h1 == Log(StartRun(f), "info", "start_phrase", cfg.dry, req.phrase)
        h2 == IF cfg.dry THEN h1 ELSE Log(h1, "warning", "attention", FALSE, << >>)
        h3 == Log(Log(h2, "info", "target", FALSE, << >>), "info", "options", FALSE, << >>)
    IN  IF req.phrase = << >>
        THEN [Status(Log(h3, "error", "empty_phrase", FALSE, << >>), "error_empty_phrase", 0)
                EXCEPT !.pc = "rejected"]
        ELSE IF req.use_regex /\ ~Compiles(req.phrase)
        THEN [Status(Log(h3, "error", "bad_regex", FALSE, << >>), "error_bad_regex", 0)
                EXCEPT !.pc = "rejected"]
        ELSE LET items == SortByLen(RglobAll(f, cfg.order))
                 s == PhraseItems(Listing(h3), cfg, req, items, 0, Len(items))
                 t == IF s.pc = "returned" THEN s
                      ELSE IF s.count = 0 THEN Log(s, "warning", "not_found", FALSE, << >>)
                      ELSE Log(s, "success", "summary", cfg.dry, << Str(s.count) >>)
             IN  Finally(t, cfg, "end_phrase")

---------------------------------------------------------------------------
(* Text inputs: splitting and searching *)

\* str.split(sep) for a one-character separator.
RECURSIVE SplitOn(_, _)
SplitOn(s, sep) ==
    IF \E i \in 1..Len(s) : s[i] = sep
    THEN LET i == CHOOSE k \in 1..Len(s) : s[k] = sep /\ \A j \in 1..(k - 1) : s[j] # sep
         IN  << SubSeq(s, 1, i - 1) >> \o SplitOn(SubSeq(s, i + 1, Len(s)), sep)
    ELSE << s >>

\* A filter that strips every part and keeps the empty ones.
StrippedKeepsEmpty(parts) == [ i \in 1..Len(parts) |-> Strip(parts[i]) ]

\* [name.strip() for name in parts if name.strip()]
StrippedNonEmpty(parts) ==
    LET kept == SelectSeq(parts, LAMBDA q : Strip(q) # << >>)
    IN  [ i \in 1..Len(kept) |-> Strip(kept[i]) ]

\* sub in s
Contains(sub, s) ==
    \E i \in 1..(Len(s) - Len(sub) + 1) : SubSeq(s, i, i + Len(sub) - 1) = sub

---------------------------------------------------------------------------
(* delete_url_shortcuts: shortcut files deleted by name *)

URL_EXT == << ".", "u", "r", "l" >>

\* A request: the comma-separated targets and the case toggle.
UrlReq(names, cs) == [names |-> names, case_sensitive |-> cs]

\* The pattern "*.url" against a name.
IsUrlName(n) == Len(n) >= Len(URL_EXT) /\ SubSeq(n, Len(n) - Len(URL_EXT) + 1, Len(n)) = URL_EXT

\* list(base_path.rglob("*.url"))
UrlFiles(f, order) == SelectSeq(RglobAll(f, order), LAMBDA p : IsUrlName(BaseName(p)))

\* A match that takes every shortcut.
UrlMatchesAny(file_path, names_list, req) == TRUE

\* any(target_name in file_name_to_check for target_name in names_list)
UrlMatches(file_path, names_list, req) ==
    LET stem == PathStem(BaseName(file_path))
        check == IF req.case_sensitive THEN stem ELSE Lower(stem)
    IN  \E k \in 1..Len(names_list) : Contains(names_list[k], check)

\* if not dry_run: file_path.unlink()
UrlWrites(cfg) == ~cfg.dry

\* Path.unlink(): a file is removed, a directory refuses.
Unlink(f, p) ==
    IF IsFile(f, p) THEN [ok |-> TRUE, fs |-> Remove(f, p)] ELSE [ok |-> FALSE, fs |-> f]

\* A shortcut deletion that counts the file although unlink raised OSError.
UrlItemCountsFailure(st, cfg, req, names_list, file_path, i, total) ==
    LET s1 == Status(st, "checking", Percent(i, total))
    IN  IF ~UrlMatches(file_path, names_list, req) THEN s1
        ELSE LET r == Call(s1, cfg, Unlink(s1.fs, file_path))
                 act == IF r.ok THEN "deleted" ELSE "failed"
             IN  [Event(Log(s1, "error", "delete_failed", FALSE, file_path), "urls", act,
                        file_path, file_path, file_path)
                     EXCEPT !.fs = r.st.fs, !.calls = r.st.calls, !.count = @ + 1]

\* One shortcut of the enumeration.
UrlItem(st, cfg, req, names_list, file_path, i, total) ==
    LET s1 == Status(st, "checking", Percent(i, total))
    IN  IF ~UrlMatches(file_path, names_list, req) THEN s1
        ELSE IF ~UrlWrites(cfg)
        THEN [Event(Log(s1, "success", "deleted", cfg.dry, file_path), "urls", "simulated",
                    file_path, file_path, file_path)
                EXCEPT !.count = @ + 1]
        ELSE LET r == Call(s1, cfg, Unlink(s1.fs, file_path))
             IN  IF r.ok
                 THEN [Event(Log(s1, "success", "deleted", cfg.dry, file_path), "urls", "deleted",
                             file_path, file_path, file_path)
                         EXCEPT !.fs = r.st.fs, !.calls = r.st.calls, !.count = @ + 1]
                 ELSE [Event(Log(s1, "error", "delete_failed", FALSE, file_path), "urls", "failed",
                             file_path, file_path, file_path)
                         EXCEPT !.calls = r.st.calls]

\* for i, file_path in enumerate(url_files), the flag read before each.
RECURSIVE UrlItems(_, _, _, _, _, _, _)
UrlItems(st, cfg, req, names_list, files, i, total) ==
    IF files = << >> THEN st
    ELSE IF StopIsSet(st, cfg) THEN Cancelled(ReadStop(st), "cancelled")
    ELSE UrlItems(UrlItem(ReadStop(st), cfg, req, names_list, Head(files), i, total),
                  cfg, req, names_list, Tail(files), i + 1, total)

\* FileOperations.delete_url_shortcuts(base_path_str, names_to_delete_str, ...,
\* case_sensitive, dry_run)
delete_url_shortcuts(f, cfg, req) ==
    LET h1 == Log(StartRun(f), "info", "start_urls", cfg.dry, << >>)
        h2 == IF cfg.dry THEN h1 ELSE Log(h1, "warning", "attention", FALSE, << >>)
        h3 == Log(Log(Log(h2, "info", "target", FALSE, << >>),
                      "info", "names", FALSE, << req.names >>), "info", "options", FALSE, << >>)
        names_list_raw == StrippedNonEmpty(SplitOn(req.names, ","))
        names_list == IF req.case_sensitive THEN names_list_raw
                      ELSE [ k \in 1..Len(names_list_raw) |-> Lower(names_list_raw[k]) ]
    IN  IF names_list_raw = << >>
        THEN [Status(Log(h3, "warning", "no_names", FALSE, << >>), "warning_no_names", 0)
                EXCEPT !.pc = "rejected"]
        ELSE LET url_files == UrlFiles(f, cfg.order)
                 s == UrlItems(Listing(h3), cfg, req, names_list, url_files, 0, Len(url_files))
                 t == IF s.pc = "returned" THEN s
                      ELSE IF s.count = 0 THEN Log(s, "warning", "not_found", FALSE, << >>)
                      ELSE Log(s, "success", "summary", cfg.dry, << Str(s.count) >>)
             IN  Finally(t, cfg, "end_urls")

---------------------------------------------------------------------------
(* create_folders_from_list: folders created from a list of lines *)

ILLEGAL_CHARS == { "?", ":", "\"", "<", ">", "|", "*" }

\* A request: the text, prefix, suffix, numbering toggle, start and padding.
FolderReq(text, prefix, suffix, numbering, start, padding) ==
    [text |-> text, prefix |-> prefix, suffix |-> suffix,
     use_numbering |-> numbering, start_num |-> start, padding |-> padding]

\* re.split(r"[\\/]", path)
RECURSIVE SplitSeps(_)
SplitSeps(s) ==
    IF \E i \in 1..Len(s) : s[i] \in { "/", "\\" }
    THEN LET i == CHOOSE k \in 1..Len(s) :
                    s[k] \in { "/", "\\" } /\ \A j \in 1..(k - 1) : s[j] \notin { "/", "\\" }
         IN  << SubSeq(s, 1, i - 1) >> \o SplitSeps(SubSeq(s, i + 1, Len(s)))
    ELSE << s >>

\* re.sub(r'[?:"<>|*]', "", part).strip()
CleanPart(part) == Strip(SelectSeq(part, LAMBDA c : c \notin ILLEGAL_CHARS))

\* The segments _sanitize_folder_path joins; with none left, os.path.join()
\* is called without an argument and raises TypeError.
SanitizedParts(path) ==
    LET parts == SplitSeps(path)
        cleaned == [ i \in 1..Len(parts) |-> CleanPart(parts[i]) ]
    IN  SelectSeq(cleaned, LAMBDA q : q # << >>)

\* A padding that adds no zero.
ZFillNone(s, width) == s

\* str(n).zfill(width)
RECURSIVE ZFill(_, _)
ZFill(s, width) == IF Len(s) >= width THEN s ELSE ZFill(<< "0" >> \o s, width)

\* The path of line i: number, prefix and suffix on the last segment.
FinalPath(parts, i, req) ==
    LET number_str == IF req.use_numbering
                      THEN ZFill(Str(i + req.start_num), req.padding) \o << "_" >>
                      ELSE << >>
        lastseg == req.prefix \o number_str \o parts[Len(parts)] \o req.suffix
    IN  Append(SubSeq(parts, 1, Len(parts) - 1), lastseg)

\* os.makedirs(full_path, exist_ok=True): [ok, fs]; the directories missing
\* on the way are created, a file on the way refuses.
MakeDirs(f, full_path, nextId) ==
    LET prefixes == { SubSeq(full_path, 1, k) : k \in 1..Len(full_path) }
        missing == { q \in prefixes : ~Exists(f, q) }
    IN  IF \E q \in prefixes : IsFile(f, q)
        THEN [ok |-> FALSE, fs |-> f]
        ELSE [ok |-> TRUE,
              fs |-> [ q \in DOMAIN f \cup missing |->
                        IF q \in DOMAIN f THEN f[q]
                        ELSE [kind |-> "dir", id |-> nextId + Len(q)] ]]

\* if not dry_run: os.makedirs(...)
FolderWrites(cfg) == ~cfg.dry

\* An identity no entry of f has.
FreshId(f) ==
    LET ids == { f[q].id : q \in DOMAIN f }
    IN  IF ids = {} THEN 1000 ELSE 1000 + (CHOOSE m \in ids : \A k \in ids : k <= m)

\* One line of the list.
FolderLine(st, cfg, req, name, i, total) ==
    LET s1 == Status(st, "creating", Percent(i, total))
        parts == SanitizedParts(name)
    IN  IF parts = << >>
        THEN [Status(Log(s1, "error", "critical", FALSE, << >>), "error", 0) EXCEPT !.pc = "crashed"]
        ELSE LET final == FinalPath(parts, i, req)
             IN  IF ~FolderWrites(cfg)
                 THEN [Event(Log(s1, "success", "created", cfg.dry, final), "folders", "simulated",
                             final, final, final)
                         EXCEPT !.count = @ + 1]
                 ELSE LET r == Call(s1, cfg, MakeDirs(s1.fs, final, FreshId(s1.fs)))
                      IN  IF r.ok
                          THEN [Event(Log(s1, "success", "created", cfg.dry, final), "folders", "created",
                                      final, final, final)
                                  EXCEPT !.fs = r.st.fs, !.calls = r.st.calls, !.count = @ + 1]
                          ELSE [Event(Log(s1, "error", "create_failed", FALSE, final), "folders", "failed",
                                      final, final, final)
                                  EXCEPT !.calls = r.st.calls]

\* for i, name in enumerate(folder_names); a set flag breaks out of the loop.
RECURSIVE FolderLines(_, _, _, _, _, _)
FolderLines(st, cfg, req, names, i, total) ==
    IF names = << >> \/ st.pc = "crashed" THEN st
    ELSE IF StopIsSet(st, cfg)
    THEN [Cancelled(ReadStop(st), "cancelled") EXCEPT !.pc = "broke"]
    ELSE FolderLines(FolderLine(ReadStop(st), cfg, req, Head(names), i, total),
                     cfg, req, Tail(names), i + 1, total)

\* FileOperations.create_folders_from_list(base_path, folder_list_str, prefix,
\* suffix, use_numbering, start_num, padding, ..., dry_run)
create_folders_from_list(f, cfg, req) ==
    LET h1 == Log(StartRun(f), "info", "start_folders", cfg.dry, << >>)
        h2 == IF cfg.dry THEN h1 ELSE Log(h1, "warning", "attention", FALSE, << >>)
        h3 == Log(h2, "info", "target", FALSE, << >>)
        folder_names == StrippedNonEmpty(SplitOn(Strip(req.text), "\n"))
    IN  IF folder_names = << >>
        THEN [Status(Log(h3, "warning", "empty_list", FALSE, << >>), "empty_list", 0)
                EXCEPT !.pc = "rejected"]
        ELSE LET s == FolderLines(h3, cfg, req, folder_names, 0, Len(folder_names))
                 t == IF s.pc = "crashed" THEN s
                      ELSE IF s.count > 0 THEN Log(s, "success", "summary", cfg.dry, << Str(s.count) >>)
                      ELSE Log(s, "warning", "none_created", cfg.dry, << >>)
             IN  Finally(t, cfg, "end_folders")

---------------------------------------------------------------------------
(* generate_excel_paths: path strings of the images of each model folder *)

\* A request: the newline-separated model names.
ExcelReq(text) == [text |-> text]

\* A character str.isdigit() accepts and int() refuses.
SUPERSCRIPT_TWO == "²"

\* int(text) for a run of the digits 0-9.
RECURSIVE IntOf(_)
IntOf(run) ==
    IF run = << >> THEN 0
    ELSE 10 * IntOf(SubSeq(run, 1, Len(run) - 1))
         + (CHOOSE v \in 0..9 : Digits[v + 1] = run[Len(run)])

\* The length of the run of s that starts at i: of digits 0-9 when digits is
\* TRUE, of other characters when it is FALSE.
RECURSIVE RunLen(_, _, _)
RunLen(s, i, digits) ==
    IF i > Len(s) \/ IsDigit(s[i]) # digits THEN 0 ELSE 1 + RunLen(s, i + 1, digits)

\* re.split("([0-9]+)", s) from position i: text, digits, text, ..., text.
RECURSIVE SplitRuns(_, _, _)
SplitRuns(s, i, digits) ==
    LET n == RunLen(s, i, digits)
        run == SubSeq(s, i, i + n - 1)
    IN  IF digits THEN << [num |-> TRUE, run |-> run] >> \o SplitRuns(s, i + n, FALSE)
        ELSE IF i + n > Len(s) THEN << [num |-> FALSE, run |-> run] >>
        ELSE << [num |-> FALSE, run |-> run] >> \o SplitRuns(s, i + n, TRUE)

\* text.isdigit() for a text run that int() cannot convert: int raises ValueError.
IntRaises(run) == run # << >> /\ \A k \in 1..Len(run) : run[k] = SUPERSCRIPT_TWO

\* natural_sort_key(s) raises.
KeyRaises(s) ==
    LET runs == SplitRuns(s, 1, FALSE)
    IN  \E k \in 1..Len(runs) : ~runs[k].num /\ IntRaises(runs[k].run)

\* natural_sort_key(s): int for a run of digits, the lower-cased text otherwise.
NaturalKey(s) ==
    LET runs == SplitRuns(s, 1, FALSE)
    IN  [ k \in 1..Len(runs) |->
            IF runs[k].num THEN [num |-> TRUE, v |-> IntOf(runs[k].run), t |-> << >>]
            ELSE [num |-> FALSE, v |-> 0, t |-> Lower(runs[k].run)] ]

\* a < b for two keys, as Python compares lists.
RECURSIVE KeyLess(_, _)
KeyLess(a, b) ==
    IF b = << >> THEN FALSE
    ELSE IF a = << >> THEN TRUE
    ELSE IF Head(a) = Head(b) THEN KeyLess(Tail(a), Tail(b))
    ELSE IF Head(a).num THEN Head(a).v < Head(b).v
    ELSE NameLess(Head(a).t, Head(b).t)

\* The first position of the smallest of the keys.
FirstSmallest(keys) ==
    CHOOSE k \in 1..Len(keys) :
        /\ \A j \in 1..Len(keys) : ~KeyLess(keys[j], keys[k])
        /\ \A j \in 1..(k - 1) : KeyLess(keys[k], keys[j])

\* sorted(names, key=natural_sort_key): stable, equal keys keep their order.
RECURSIVE NaturalSort(_)
TakeFirst(names, i) ==
    << names[i] >> \o NaturalSort(SubSeq(names, 1, i - 1) \o SubSeq(names, i + 1, Len(names)))

NaturalSort(names) ==
    IF names = << >> THEN << >>
    ELSE TakeFirst(names, FirstSmallest([ k \in 1..Len(names) |-> NaturalKey(names[k]) ]))

\* success_output.append(...): the line of a model, its paths in order.
AddSuccess(st, model_name, paths) ==
    [st EXCEPT !.success_output = Append(@, [model |-> model_name, paths |-> paths])]

\* error_output.append(...)
AddError(st, model_name, why) ==
    [st EXCEPT !.error_output = Append(@, [model |-> model_name, why |-> why])]

\* result_callback(success lines, error lines)
Result(st, ok, err) == [st EXCEPT !.results = Append(@, [ok |-> ok, err |-> err])]

\* [f for f in os.listdir(model_path) if image extension and isfile]
PhotoNames(f, model_path, order) ==
    SelectSeq(ListDir(f, model_path, order),
              LAMBDA n : IsImageName(n) /\ IsFile(f, Join(model_path, n)))

\* [os.path.join(model_path, f) for f in sorted(...)]
JoinAll(model_path, sorted) == [ k \in 1..Len(sorted) |-> Join(model_path, sorted[k]) ]

\* A model folder that was listed: its photos are sorted and joined.
PathsOfPhotos(st, model_name, model_path, names) ==
    IF names = << >>
    THEN Log(AddError(st, model_name, "no_images"), "warning", "no_images", FALSE, << model_name >>)
    ELSE IF \E k \in 1..Len(names) : KeyRaises(names[k])
    THEN [Status(Log(st, "error", "critical", FALSE, << >>), "error", 0) EXCEPT !.pc = "crashed"]
    ELSE Log(AddSuccess(st, model_name, JoinAll(model_path, NaturalSort(names))),
             "success", "generated", FALSE, << model_name, Str(Len(names)) >>)

\* os.listdir(model_path) returned, or raised OSError.
PathsListed(r, cfg, model_name, model_path) ==
    IF ~r.ok
    THEN Log(AddError(r.st, model_name, "unreadable"), "error", "read_failed", FALSE, << model_name >>)
    ELSE PathsOfPhotos(r.st, model_name, model_path,
                       PhotoNames(r.st.fs, model_path, cfg.order))

\* The folder of a model name, after the status callback.
PathsFolder(s1, cfg, model_name, model_path) ==
    IF ~IsDir(s1.fs, model_path)
    THEN Log(AddError(s1, model_name, "not_found"), "error", "model_not_found", FALSE, << model_name >>)
    ELSE PathsListed(Call(s1, cfg, [ok |-> TRUE, fs |-> s1.fs]), cfg, model_name, model_path)

\* One model name of the list.
PathsModel(st, cfg, model_name, i, total) ==
    PathsFolder(Listing(Status(st, "checking", Percent(i, total))), cfg, model_name,
                Join(Root, model_name))

\* for i, model_name in enumerate(model_list); a set flag breaks out of the loop.
RECURSIVE PathsModels(_, _, _, _, _)
PathsModels(st, cfg, names, i, total) ==
    IF names = << >> \/ st.pc = "crashed" THEN st
    ELSE IF StopIsSet(st, cfg)
    THEN [Cancelled(ReadStop(st), "cancelled") EXCEPT !.pc = "broke"]
    ELSE PathsModels(PathsModel(ReadStop(st), cfg, Head(names), i, total),
                     cfg, Tail(names), i + 1, total)

\* After the loop: the result callback, the summary unless the flag is set,
\* and the finally block; an exception raised in the loop skips the first two.
PathsReport(u, set) ==
    IF set THEN u ELSE Status(Log(u, "success", "summary", FALSE, << >>), "done", 100)

PathsEnd(s, cfg) ==
    Log(IF s.pc = "crashed" THEN s
        ELSE PathsReport(ReadStop(Result(s, s.success_output, s.error_output)), StopIsSet(s, cfg)),
        "info", "end_paths", FALSE, << >>)

\* FileOperations.generate_excel_paths(base_path, model_list_str, ...,
\* result_callback)
generate_excel_paths(f, cfg, req) ==
    LET h1 == Log(StartRun(f), "info", "start_paths", FALSE, << >>)
        h2 == Log(h1, "info", "target", FALSE, << >>)
        model_list == StrippedNonEmpty(SplitOn(Strip(req.text), "\n"))
    IN  IF model_list = << >>
        THEN [Result(Status(Log(h2, "warning", "empty_list", FALSE, << >>), "empty_list", 0),
                     << >>, << >>)
                EXCEPT !.pc = "rejected"]
        ELSE PathsEnd(PathsModels(h2, cfg, model_list, 0, Len(model_list)), cfg)

---------------------------------------------------------------------------
(* Initial trees *)

D(p) == [path |-> p, kind |-> "dir"]
F(p) == [path |-> p, kind |-> "file"]

\* The entries I of the universe U form a tree: each has its parent directory.
ClosedIn(U, I) ==
    \A i \in I : \/ Len(U[i].path) = 1
                 \/ \E j \in I : U[j].path = Parent(U[i].path) /\ U[j].kind = "dir"

\* The filesystem holding the entries I of U; an entry's identity is its index.
TreeOf(U, I) ==
    [ p \in { U[i].path : i \in I } |->
        LET i == CHOOSE k \in I : U[k].path = p
        IN  [kind |-> U[i].kind, id |-> i] ]

TreesOf(U) == { TreeOf(U, I) : I \in { J \in SUBSET (1..Len(U)) : ClosedIn(U, J) } }

DirA == << "A" >>
FileX == << "x", ".", "t", "x", "t" >>
FileY == << "y", ".", "t", "x", "t" >>
FileZ == << "z", ".", "t", "x", "t" >>

\* A/1/{x,y}, A/{x,z}, A/1/1/x and what lies between.
ExtractUniverseA ==
    << D(<< DirA >>), D(<< DirA, ONE >>), F(<< DirA, ONE, FileX >>), F(<< DirA, ONE, FileY >>),
       F(<< DirA, FileZ >>), F(<< DirA, FileX >>), D(<< DirA, ONE, ONE >>),
       F(<< DirA, ONE, ONE, FileX >>) >>

\* "1" folders directly in the root: 1/x, 1/1/x.
ExtractUniverseR ==
    << D(<< ONE >>), F(<< ONE, FileX >>), D(<< ONE, ONE >>), F(<< ONE, ONE, FileX >>) >>

DirB == << "b" >>
DirC == << "c" >>

\* A folder c with a file inside a "1" folder, and a folder c beside it.
ExtractUniverseB ==
    << D(<< DirB >>), D(<< DirB, ONE >>), D(<< DirB, ONE, DirC >>),
       F(<< DirB, ONE, DirC, FileY >>), D(<< DirB, DirC >>) >>

ExtractTrees ==
    TreesOf(ExtractUniverseA) \cup TreesOf(ExtractUniverseR) \cup TreesOf(ExtractUniverseB)

JPG == << ".", "j", "p", "g" >>
TXT == << ".", "t", "x", "t" >>
Jpg(stem) == stem \o JPG
DirS == << "S" >>
B_PNG == << "b", ".", "P", "N", "G" >>

\* Image files in the root: numeric names, plain names, a taken suffix name.
RenameUniverseR ==
    << F(<< Jpg(<< "0" >>) >>), F(<< Jpg(<< "1" >>) >>), F(<< Jpg(<< "2" >>) >>),
       F(<< Jpg(<< "a" >>) >>), F(<< B_PNG >>), F(<< ConflictName(<< "1" >>, 1, JPG) >>) >>

\* A folder S with images, a file that is no image, and a subfolder that
\* carries a numeric image name.
RenameUniverseS ==
    << D(<< DirS >>), D(<< DirS, Jpg(<< "1" >>) >>), F(<< DirS, Jpg(<< "a" >>) >>),
       F(<< DirS, B_PNG >>), F(<< DirS, << "c" >> \o TXT >>) >>

\* 0.jpg, 1.jpg and the suffix names 1_conflict_1.jpg .. 1_conflict_k.jpg.
CrowdedTree(k) ==
    [ p \in { << Jpg(<< "0" >>) >>, << Jpg(<< "1" >>) >> }
            \cup { << ConflictName(<< "1" >>, n, JPG) >> : n \in 1..k } |->
        [kind |-> "file",
         id |-> IF p = << Jpg(<< "0" >>) >> THEN 1
                ELSE IF p = << Jpg(<< "1" >>) >> THEN 2
                ELSE 2 + (CHOOSE n \in 1..k : p = << ConflictName(<< "1" >>, n, JPG) >>)] ]

CrowdedTrees == { CrowdedTree(CONFLICT_LIMIT - 2), CrowdedTree(CONFLICT_LIMIT - 1) }

\* The files 1.jpg .. n.jpg, as a sequential rename leaves n images.
NumberedTree(n) ==
    [ p \in { << Jpg(Str(k)) >> : k \in 1..n } |->
        [kind |-> "file", id |-> CHOOSE k \in 1..n : p = << Jpg(Str(k)) >>] ]

NumberedTrees == { NumberedTree(9), NumberedTree(10) }

RenameTrees == TreesOf(RenameUniverseR) \cup TreesOf(RenameUniverseS)

PHOTO == << "P", "h", "o", "t", "o", "_", "v", "2", "_", "F", "I", "N", "A", "L", ".", "j", "p", "g" >>

\* Names that hold the phrase "X": two that lose it to the same name, one
\* whose stem is the phrase, a folder with a file inside.
PhraseUniverseA ==
    << F(<< Jpg(<< "a", "X" >>) >>), F(<< Jpg(<< "a" >>) >>), F(<< Jpg(<< "a", "X", "X" >>) >>),
       F(<< Jpg(<< "X" >>) >>), D(<< << "d", "X" >> >>),
       F(<< << "d", "X" >>, << "f", "X" >> \o TXT >>) >>

\* Names that are the phrase and nothing else, a name to trim, a lower-case
\* phrase, and the example of the specification.
PhraseUniverseB ==
    << D(<< << "X" >> >>), F(<< << "X", "X" >> >>), F(<< << "X", " ", "b" >> \o TXT >>),
       F(<< Jpg(<< "a", "x" >>) >>), F(<< PHOTO >>) >>

PhraseTrees == TreesOf(PhraseUniverseA) \cup TreesOf(PhraseUniverseB)

PhraseReqs ==
    { PhraseReq(<< "X" >>, TRUE, FALSE), PhraseReq(<< "x" >>, FALSE, FALSE),
      PhraseReq(<< "X" >>, TRUE, TRUE), PhraseReq(<< ".", "X" >>, FALSE, TRUE),
      PhraseReq(Jpg(<< "X" >>), TRUE, FALSE),
      PhraseReq(<< "_", "F", "I", "N", "A", "L" >>, TRUE, FALSE),
      PhraseReq(<< >>, TRUE, FALSE), PhraseReq(<< "(" >>, TRUE, TRUE) }

Url(stem) == stem \o URL_EXT

\* Shortcuts in the root and in a folder, a file whose whole name is the
\* shortcut extension, a file that is no shortcut, and a folder that carries
\* a shortcut name.
UrlUniverse ==
    << F(<< Url(<< "a", "x" >>) >>), F(<< Url(<< "A", "X" >>) >>), F(<< URL_EXT >>),
       F(<< << "a", "x" >> \o TXT >>), D(<< DirS >>), F(<< DirS, Url(<< "a", "x" >>) >>),
       D(<< DirS, Url(<< "A", "X" >>) >>) >>

UrlTrees == TreesOf(UrlUniverse)

UrlReqs ==
    { UrlReq(<< "a", "x" >>, FALSE), UrlReq(<< "a", "x" >>, TRUE),
      UrlReq(<< "A", "X", ",", " ", "." >>, FALSE), UrlReq(<< " ", ",", " " >>, FALSE),
      UrlReq(<< >>, TRUE) }

PROJ == << "P", "r", "o", "j" >>
DOCS == << "D", "o", "c", "s" >>
ASSETS == << "A", "s", "s", "e", "t", "s" >>
P_ == << "P", "_" >>

\* The folder Proj, one of the folders the example creates, and a file Docs.
FolderUniverse ==
    << D(<< PROJ >>), D(<< PROJ, P_ \o << "0", "1", "_" >> \o ASSETS >>), F(<< DOCS >>) >>

FolderTrees == TreesOf(FolderUniverse)

FolderReqs ==
    { FolderReq(PROJ \o << "/" >> \o ASSETS \o << "\n" >> \o PROJ \o << "/" >> \o DOCS,
                P_, << >>, TRUE, 1, 2),
      FolderReq(DOCS \o << "\n" >> \o PROJ \o << "\\" >> \o DOCS, << >>, << "_", "x" >>, FALSE, 1, 1),
      FolderReq(<< "?", "/", ":", "\n" >> \o DOCS, << >>, << >>, FALSE, 1, 1),
      FolderReq(<< " ", "\n", " " >>, << >>, << >>, TRUE, 1, 3),
      FolderReq(<< >>, P_, << >>, TRUE, 1, 2) }

\* Model folders A and b and a file c: A with images that sort differently by
\* number and by character, b with an image whose name the sort key refuses.
PathsUniverse ==
    << D(<< DirA >>), F(<< DirA, Jpg(<< "1", "0" >>) >>), F(<< DirA, Jpg(<< "2" >>) >>),
       F(<< DirA, B_PNG >>), F(<< DirA, << "c" >> \o TXT >>),
       D(<< DirB >>), F(<< DirB, Jpg(<< "1", SUPERSCRIPT_TWO, "2" >>) >>), F(<< DirC >>) >>

PathsTrees == TreesOf(PathsUniverse)

PathsReqs ==
    { ExcelReq(DirA \o << "\n" >> \o DirB \o << "\n" >> \o DirC),
      ExcelReq(DirB \o << "\n" >> \o DirA),
      ExcelReq(DirC \o << "\n", "\n" >> \o DirA \o << " " >>),
      ExcelReq(<< " ", "\n", " " >>), ExcelReq(<< >>) }

Orders == { "asc", "desc" }

---------------------------------------------------------------------------
(* The host application: run_operation, the worker thread, the poll timer *)

\* The host variant: ui/main_window.py (MainWindow), SUPER.py
\* (ModernFileOrganizerApp) or super_script.py (App), which has no dialogs
\* and no poll timer and clears the flag in the worker.
Variants == { "main_window", "SUPER", "super_script" }

\* The rows of self.operations by what run_operation reads of them:
\* extraction and rename have no pre_check, path generation is not a file
\* operation and returns None.
HostOps ==
    { [name |-> "extract", is_file_op |-> TRUE, pre_check |-> FALSE, returns_int |-> TRUE],
      [name |-> "phrase", is_file_op |-> TRUE, pre_check |-> TRUE, returns_int |-> TRUE],
      [name |-> "paths", is_file_op |-> FALSE, pre_check |-> TRUE, returns_int |-> FALSE] }

\* The host after construction: threading.Event() is clear, no thread, the
\* stop button is created disabled.  pressed_disabled (history only): a run
\* request was delivered while the operation buttons were disabled.
HostIdle(variant) ==
    [variant |-> variant, current_thread |-> 0, threads |-> << >>,
     stop_event |-> FALSE, operation_result_counter |-> 0, last_is_file_op |-> FALSE,
     ui_active |-> TRUE, stop_btn |-> FALSE, timers |-> 0, dialogs |-> << >>,
     status |-> "ready", stop_target |-> 0, pressed_disabled |-> FALSE]

\* A guard that never sees a thread alive.
IsAliveNever(h) == FALSE

\* self.current_thread and self.current_thread.is_alive()
IsAlive(h) == h.current_thread # 0 /\ h.threads[h.current_thread].alive

\* A messagebox call: the handler waits in the dialog's own event loop, in
\* which timers still fire and no click reaches the window.
Show(h, kind, op) == [h EXCEPT !.dialogs = Append(@, [kind |-> kind, op |-> op])]

\* set_ui_state
SetUiState(h, active) == [h EXCEPT !.ui_active = active, !.stop_btn = ~active]

\* A start that leaves the flag as it finds it.
ClearStopNever(h) == h

\* self.stop_event.clear()
ClearStop(h) == [h EXCEPT !.stop_event = FALSE]

\* threading.Thread(target=operation_wrapper, daemon=True).start(): the worker
\* is to make todo loop iterations.  begun: the operation function was
\* entered; set_at_begin, by, summaries (history only): the flag when it was
\* entered, the thread for which the flag that cancelled the worker was set,
\* and how often the completion summary of the worker was shown.
NewThread(h, op, todo, begun) ==
    [h EXCEPT !.threads = Append(@, [alive |-> TRUE, todo |-> todo, count |-> 0,
                                     cancelled |-> FALSE, returns_int |-> op.returns_int,
                                     begun |-> begun, set_at_begin |-> h.stop_event, by |-> 0,
                                     summaries |-> 0]),
              !.current_thread = Len(h.threads) + 1]

\* run_operation from the reset of the counter to self.after(100, ...); in
\* super_script.py only the thread is started.
StartThread(h, op, todo) ==
    IF h.variant = "super_script" THEN NewThread(h, op, todo, FALSE)
    ELSE [NewThread(SetUiState(ClearStop([h EXCEPT !.operation_result_counter = 0,
                                                   !.last_is_file_op = op.is_file_op,
                                                   !.status = "starting"]),
                               FALSE),
                    op, todo, TRUE)
            EXCEPT !.timers = @ + 1]

\* run_operation up to its first dialog or, without one, to its end.
\* valid: validate_path; filled: the pre_check of the operation; dry:
\* dry_run_var.  super_script.py checks none of them, and its warning box
\* (ctk.messagebox, which does not exist) raises in the callback.
run_operation(h, op, valid, filled, dry, todo) ==
    IF h.variant = "super_script"
    THEN IF IsAlive(h) THEN h ELSE StartThread(h, op, todo)
    ELSE IF IsAlive(h) THEN Show(h, "busy", op)
    ELSE IF ~valid THEN Show(h, "invalid", op)
    ELSE IF op.pre_check /\ ~filled THEN Show(h, "nodata", op)
    ELSE IF op.is_file_op /\ ~dry THEN Show(h, "confirm", op)
    ELSE StartThread(h, op, todo)

\* self.stop_event.set() and what follows it; stop_target (history only) is
\* the thread that was alive when the request was made.
SetStop(h, target) ==
    [h EXCEPT !.stop_event = TRUE, !.stop_target = target, !.stop_btn = FALSE,
              !.status = IF h.variant = "super_script" THEN @ ELSE "stopping"]

\* stop_current_operation up to its dialog; stop_operation of
\* super_script.py, which asks nothing.
stop_current_operation(h) ==
    IF IsAlive(h)
    THEN IF h.variant = "super_script" THEN SetStop(h, h.current_thread)
         ELSE Show(h, "stop", [name |-> "none", target |-> h.current_thread])
    ELSE IF h.variant = "SUPER" THEN [h EXCEPT !.status = "no_active"]
    ELSE h

\* check_thread_completion after its message box.
Completed(h) ==
    LET h1 == SetUiState(h, TRUE)
        h2 == IF h1.stop_event THEN [h1 EXCEPT !.status = "stopped"] ELSE h1
        h3 == [h2 EXCEPT !.current_thread = 0]
    IN  IF h.variant = "SUPER" THEN [h3 EXCEPT !.stop_event = FALSE] ELSE h3

\* A summary that is shown for a stopped operation too.
SummaryDueWhenStopped(h) == h.current_thread # 0 /\ h.last_is_file_op

\* if self.current_thread and not self.stop_event.is_set() and ... is_file_op
SummaryDue(h) == h.current_thread # 0 /\ ~h.stop_event /\ h.last_is_file_op

\* messagebox.showinfo with the processed count.
ShowSummary(h) ==
    Show([h EXCEPT !.threads[h.current_thread].summaries = @ + 1], "done", [name |-> "none"])

\* check_thread_completion, called by a timer.
check_thread_completion(h) ==
    LET h1 == [h EXCEPT !.timers = @ - 1]
    IN  IF IsAlive(h1) THEN [h1 EXCEPT !.timers = @ + 1]
        ELSE IF SummaryDue(h1) THEN ShowSummary(h1)
        ELSE Completed(h1)

\* The innermost dialog is closed with the answer yes or no, and the handler
\* that opened it runs to its end.
CloseDialog(h, yes, todo) ==
    LET top == h.dialogs[Len(h.dialogs)]
        h1 == [h EXCEPT !.dialogs = SubSeq(@, 1, Len(@) - 1)]
    IN  CASE top.kind = "confirm" ->
               IF yes THEN StartThread(h1, top.op, todo)
               ELSE [h1 EXCEPT !.status = "declined"]
          [] top.kind = "stop" ->
               IF yes THEN SetStop(h1, top.op.target) ELSE h1
          [] top.kind = "done" -> Completed(h1)
          [] OTHER -> h1

\* The first step of operation_wrapper in super_script.py: the flag is
\* cleared and the stop button enabled before the operation is entered.
WorkerBegins(h, i) ==
    [ClearStop(h) EXCEPT !.threads[i].begun = TRUE,
                         !.threads[i].set_at_begin = ClearStop(h).stop_event,
                         !.stop_btn = TRUE]

\* The operation of worker i returns: operation_wrapper stores an int result
\* in operation_result_counter, and in super_script.py disables the stop
\* button.
WorkerReturns(h, i) ==
    [h EXCEPT !.threads[i].alive = FALSE,
              !.threads[i].cancelled = h.stop_event,
              !.threads[i].by = IF h.stop_event THEN h.stop_target ELSE 0,
              !.operation_result_counter = IF h.threads[i].returns_int THEN h.threads[i].count ELSE @,
              !.stop_btn = IF h.variant = "super_script" THEN FALSE ELSE @]

\* operation_wrapper ends with an exception (get_args or the operation
\* raises): the thread dies and no result is stored.
WorkerRaises(h, i) == [h EXCEPT !.threads[i].alive = FALSE]

\* One loop iteration of worker i, or its return: the operation reads the
\* flag at the top of the iteration.
WorkerRuns(h, i) ==
    IF ~h.threads[i].begun THEN WorkerBegins(h, i)
    ELSE IF h.stop_event \/ h.threads[i].todo = 0 THEN WorkerReturns(h, i)
    ELSE [h EXCEPT !.threads[i].todo = @ - 1, !.threads[i].count = @ + 1]

---------------------------------------------------------------------------
(* The operations as actions *)

NoRun == [op |-> "none", dry |-> FALSE, req |-> << >>, count |-> 0, log |-> << >>,
          status |-> << >>, events |-> << >>, stopped |-> FALSE, errors |-> FALSE,
          listed |-> FALSE, calls |-> 0, results |-> << >>, stopAt |-> -1, failAt |-> 0,
          pc |-> "none"]

\* What a run leaves in the state.
Ran(op, cfg, req, r) ==
    [op |-> op, dry |-> cfg.dry, req |-> req, count |-> r.count, log |-> r.log,
     status |-> r.status, events |-> r.events,
     stopped |-> (cfg.stopAt >= 0 /\ r.reads > cfg.stopAt),
     errors |-> (cfg.failAt > 0 /\ r.calls >= cfg.failAt),
     listed |-> r.listed, calls |-> r.calls, results |-> r.results,
     stopAt |-> IF cfg.stopAt >= 0 /\ r.reads > cfg.stopAt THEN cfg.stopAt ELSE -1,
     failAt |-> IF cfg.failAt > 0 /\ r.calls >= cfg.failAt THEN cfg.failAt ELSE 0,
     pc |-> r.pc]

\* The inputs of a run that the handler does not control; a dry run makes no
\* filesystem call that could fail.
Cfgs ==
    { c \in { Cfg(dry, stopAt, failAt, lsorder, rootslash) :
                dry \in BOOLEAN, stopAt \in -1..MaxCancel, failAt \in 0..MaxFail } :
        c.dry => c.failAt = 0 }

Finish(op, cfg, req, r) ==
    /\ fs' = r.fs
    /\ fs0' = fs
    /\ last' = Ran(op, cfg, req, r)
    /\ prev' = last
    /\ left' = left - 1
    /\ UNCHANGED << lsorder, rootslash, host >>

OrganizeFolders ==
    /\ left > 0
    /\ \E cfg \in Cfgs : Finish("extract", cfg, << >>, organize_folders(fs, cfg))

RenameImagesSequentially ==
    /\ left > 0
    /\ \E cfg \in Cfgs : Finish("rename", cfg, << >>, rename_images_sequentially(fs, cfg))

RemovePhraseFromNames ==
    /\ left > 0
    /\ \E cfg \in Cfgs, req \in PhraseReqs :
          Finish("phrase", cfg, req, remove_phrase_from_names(fs, cfg, req))

DeleteUrlShortcuts ==
    /\ left > 0
    /\ \E cfg \in Cfgs, req \in UrlReqs :
          Finish("urls", cfg, req, delete_url_shortcuts(fs, cfg, req))

CreateFoldersFromList ==
    /\ left > 0
    /\ \E cfg \in Cfgs, req \in FolderReqs :
          Finish("folders", cfg, req, create_folders_from_list(fs, cfg, req))

\* Path generation has no dry-run parameter.
GenerateExcelPaths ==
    /\ left > 0
    /\ \E cfg \in { c \in Cfgs : ~c.dry }, req \in PathsReqs :
          Finish("paths", cfg, req, generate_excel_paths(fs, cfg, req))

InitWith(trees, slashes, runs) ==
    /\ fs \in trees
    /\ fs0 = fs
    /\ last = NoRun
    /\ prev = NoRun
    /\ left = runs
    /\ lsorder \in Orders
    /\ rootslash \in slashes
    /\ host = HostIdle("main_window")

\* Extraction alone, run once or twice in a row.
InitOrganize == InitWith(ExtractTrees, BOOLEAN, 2)
NextOrganize == OrganizeFolders
SpecOrganize == InitOrganize /\ [][NextOrganize]_vars

\* Sequential rename alone.
InitRename == InitWith(RenameTrees \cup CrowdedTrees, {FALSE}, 1)
NextRename == RenameImagesSequentially
SpecRename == InitRename /\ [][NextRename]_vars

\* Sequential rename run on its own output: twice in a row on the small
\* trees, and on the trees that are numbered already.
InitRenameTwice == InitWith(RenameTrees \cup NumberedTrees, {FALSE}, 2)
NextRenameTwice == RenameImagesSequentially
SpecRenameTwice == InitRenameTwice /\ [][NextRenameTwice]_vars

\* Phrase removal alone.
InitPhrase == InitWith(PhraseTrees, {FALSE}, 1)
NextPhrase == RemovePhraseFromNames
SpecPhrase == InitPhrase /\ [][NextPhrase]_vars

\* Shortcut deletion alone.
InitUrls == InitWith(UrlTrees, {FALSE}, 1)
NextUrls == DeleteUrlShortcuts
SpecUrls == InitUrls /\ [][NextUrls]_vars

\* Folder creation alone.
InitFolders == InitWith(FolderTrees, {FALSE}, 1)
NextFolders == CreateFoldersFromList
SpecFolders == InitFolders /\ [][NextFolders]_vars

\* Path generation alone.
InitPaths == InitWith(PathsTrees, {FALSE}, 1)
NextPaths == GenerateExcelPaths
SpecPaths == InitPaths /\ [][NextPaths]_vars

\* Any one of the six operations, on any of the trees prepared for it.
AllTrees ==
    ExtractTrees \cup RenameTrees \cup PhraseTrees \cup UrlTrees \cup FolderTrees \cup PathsTrees

Init == InitWith(AllTrees, {FALSE}, 1)

Next ==
    \/ fs \in ExtractTrees /\ OrganizeFolders
    \/ fs \in RenameTrees /\ RenameImagesSequentially
    \/ fs \in PhraseTrees /\ RemovePhraseFromNames
    \/ fs \in UrlTrees /\ DeleteUrlShortcuts
    \/ fs \in FolderTrees /\ CreateFoldersFromList
    \/ fs \in PathsTrees /\ GenerateExcelPaths

Spec == Init /\ [][Next]_vars

\* The host alone: requests, dialog answers, worker steps and timer ticks in
\* any order.  A click is delivered only when no dialog is open.
\* A click on a run button was delivered to h and left h2.
Pressed(h, h2) == [h2 EXCEPT !.pressed_disabled = @ \/ ~h.ui_active]

RunOperation ==
    /\ host.dialogs = << >>
    /\ \E op \in HostOps, valid \in BOOLEAN, filled \in BOOLEAN, dry \in BOOLEAN,
          todo \in 0..MaxItems :
          /\ host' = Pressed(host, run_operation(host, op, valid, filled, dry, todo))
          /\ Len(host'.threads) <= MaxThreads
    /\ UNCHANGED << fs, fs0, last, prev, left, lsorder, rootslash >>

StopCurrentOperation ==
    /\ host.dialogs = << >>
    /\ host' = stop_current_operation(host)
    /\ UNCHANGED << fs, fs0, last, prev, left, lsorder, rootslash >>

AnswerDialog ==
    /\ host.dialogs # << >>
    /\ \E yes \in BOOLEAN, todo \in 0..MaxItems :
          /\ host' = CloseDialog(host, yes, todo)
          /\ Len(host'.threads) <= MaxThreads
    /\ UNCHANGED << fs, fs0, last, prev, left, lsorder, rootslash >>

Worker ==
    /\ \E i \in DOMAIN host.threads, raises \in BOOLEAN :
          /\ host.threads[i].alive
          /\ host' = IF raises THEN WorkerRaises(host, i) ELSE WorkerRuns(host, i)
    /\ UNCHANGED << fs, fs0, last, prev, left, lsorder, rootslash >>

CheckThreadCompletion ==
    /\ host.timers > 0
    /\ host' = check_thread_completion(host)
    /\ UNCHANGED << fs, fs0, last, prev, left, lsorder, rootslash >>

InitApp ==
    /\ fs = TreeOf(PathsUniverse, {})
    /\ fs0 = fs
    /\ last = NoRun
    /\ prev = NoRun
    /\ left = 0
    /\ lsorder = "asc"
    /\ rootslash = FALSE
    /\ host \in { HostIdle(v) : v \in Variants }

NextApp ==
    \/ RunOperation
    \/ StopCurrentOperation
    \/ AnswerDialog
    \/ Worker
    \/ CheckThreadCompletion

SpecApp == InitApp /\ [][NextApp]_vars

\* The host with its event loop running: a timer that is due fires, and a
\* message box that is open is answered.
SpecAppFair ==
    /\ InitApp /\ [][NextApp]_vars
    /\ WF_vars(CheckThreadCompletion)
    /\ WF_vars(AnswerDialog)

---------------------------------------------------------------------------
(* Vocabulary of the properties *)

\* The identities of the entries of a tree.
IdsOf(f) == { f[p].id : p \in DOMAIN f }

\* Where the entry with identity id is in f.
PathOfId(f, id) == CHOOSE p \in DOMAIN f : f[p].id = id

EventsOf(r) == { r.events[i] : i \in DOMAIN r.events }

\* A move or rename that was carried out on the disk.
Performed(e) == e.act \in { "moved", "renamed" }

\* An item whose destination existed when the item was reached.
Contested(e) ==
    /\ e.op \in { "extract", "rename", "phrase", "folders" }
    /\ e.wantWas
    /\ e.op = "folders" \/ e.want # e.src

\* How many lines of the log are the message key at the level lvl.
CountLog(r, lvl, key) ==
    Cardinality({ i \in DOMAIN r.log : r.log[i].lvl = lvl /\ r.log[i].key = key })

\* The run ran to its end: the flag was never seen set, no call was made to fail.
Undisturbed(r) == r.op # "none" /\ ~r.stopped /\ ~r.errors

\* organize_folders, rename_images_sequentially, ... by the name of the run.
RunOf(op, f, cfg, req) ==
    CASE op = "extract" -> organize_folders(f, cfg)
      [] op = "rename" -> rename_images_sequentially(f, cfg)
      [] op = "phrase" -> remove_phrase_from_names(f, cfg, req)
      [] op = "urls" -> delete_url_shortcuts(f, cfg, req)
      [] op = "folders" -> create_folders_from_list(f, cfg, req)
      [] op = "paths" -> generate_excel_paths(f, cfg, req)

\* The messages of a log without the "[DRY RUN] " prefix and without the
\* warning that only a real run prints at its start.
Messages(log) ==
    LET kept == SelectSeq(log, LAMBDA m : m.key # "attention")
    IN  [ i \in 1..Len(kept) |-> [lvl |-> kept[i].lvl, key |-> kept[i].key, arg |-> kept[i].arg] ]

---------------------------------------------------------------------------
(* C1 *)

\* C1: a dry run of any of the five mutating operations, on any tree, with any
\* parameters and whenever it is cancelled, leaves the filesystem as it was
\* before the call.
C1_DryRunLeavesTree == (last.op # "none" /\ last.dry) => fs = fs0

\* A dry run that announced a change and was then cancelled.
C1_Witness ==
    /\ last.dry /\ last.stopped
    /\ \E e \in EventsOf(last) : e.act = "simulated"
    /\ fs = fs0

---------------------------------------------------------------------------
(* C2 *)

\* C2: a real run that ran to its end and the dry run from the same tree give
\* the same messages (prefix and start warning aside) and the same count.
C2_DryRunSameLogAndCount ==
    (Undisturbed(last) /\ ~last.dry) =>
        LET d == RunOf(last.op, fs0, Cfg(TRUE, -1, 0, lsorder, rootslash), last.req)
        IN  /\ d.count = last.count
            /\ Messages(d.log) = Messages(last.log)

---------------------------------------------------------------------------
(* C3 *)

MoveOps == { "extract", "rename", "phrase" }

\* Every move or rename carried out went to a path that did not exist.
OntoFreePaths == \A e \in EventsOf(last) : Performed(e) => ~e.dstWas

\* The "1" folder at p was emptied and deleted by the extraction.
DeletedOne(p) ==
    /\ last.op = "extract"
    /\ fs0[p].kind = "dir" /\ BaseName(p) = ONE
    /\ \E e \in EventsOf(last) : e.act = "rmdir" /\ e.srcId = fs0[p].id

\* C3 as stated: extraction, sequential rename and phrase removal move or
\* rename only onto paths that do not exist, and every entry that existed
\* before the run exists after it.
C3_EveryEntrySurvives ==
    last.op \in MoveOps => OntoFreePaths /\ IdsOf(fs0) \subseteq IdsOf(fs)

\* C3: extraction, sequential rename and phrase removal move or rename only
\* onto paths that do not exist, and every entry that existed before the run
\* exists after it, except the "1" folders the extraction emptied and deleted.
C3_NothingOverwritten ==
    last.op \in MoveOps =>
        /\ OntoFreePaths
        /\ \A p \in DOMAIN fs0 : fs0[p].id \in IdsOf(fs) \/ DeletedOne(p)
        /\ \A p \in DOMAIN fs0 : fs0[p].id \in IdsOf(fs) =>
                fs[PathOfId(fs, fs0[p].id)].kind = fs0[p].kind

\* An extraction that skipped one item on a conflict and moved another.
C3_Witness ==
    /\ last.op = "extract" /\ ~last.dry
    /\ \E e \in EventsOf(last) : e.act = "conflict"
    /\ \E e \in EventsOf(last) : e.act = "moved"

---------------------------------------------------------------------------
(* C4 *)

\* The entry with identity id is still in the tree.
Persists(id) == id \in IdsOf(fs)

\* The source of e is still in the tree, under the name it had.
SourceKept(e) == Persists(e.srcId) /\ BaseName(PathOfId(fs, e.srcId)) = BaseName(e.src)

ContestedEvents(r) == { i \in DOMAIN r.events : Contested(r.events[i]) }

\* The contested items for which a conflict warning is due.
WarnedEvents(r) ==
    { i \in ContestedEvents(r) : r.events[i].op # "folders" /\ r.events[i].act # "abandoned" }

\* e.dst is a suffixed name of e.want within the limit of the search.
SuffixedName(e) ==
    LET parts == SplitExt(BaseName(e.want))
    IN  \E n \in 1..(CONFLICT_LIMIT - 1) : BaseName(e.dst) = ConflictName(parts[1], n, parts[2])

---------------------------------------------------------------------------
(* C5 *)

\* The name is digits and an extension, as a rename target is.
NumericName(n) ==
    LET stem == SplitExt(n)[1]
    IN  stem # << >> /\ \A i \in 1..Len(stem) : IsDigit(stem[i])

\* The files of directory d, and the image files among them.
FilesIn(f, d) == { n \in ChildNames(f, d) : IsFile(f, Join(d, n)) }
ImagesIn(f, d) == { n \in FilesIn(f, d) : IsImageName(n) }

\* The directories of f with an image file.
DirsWithImages(f) == { d \in { Parent(p) : p \in DOMAIN f } : ImagesIn(f, d) # {} }

\* The 1-based position of the image n among the images d had, by name.
PositionOf(n, d) == 1 + Cardinality({ m \in ImagesIn(fs0, d) : NameLess(m, n) })

\* The number a string of digits writes.
RECURSIVE ValueOf(_)
ValueOf(digits) ==
    IF digits = << >> THEN 0
    ELSE 10 * ValueOf(SubSeq(digits, 1, Len(digits) - 1))
         + (CHOOSE v \in 0..9 : Digits[v + 1] = digits[Len(digits)])

\* stem is the decimal numeral of k.
IsNumeral(stem, k) ==
    /\ stem # << >> /\ stem[1] # "0"
    /\ \A i \in 1..Len(stem) : IsDigit(stem[i])
    /\ ValueOf(stem) = k

\* ext is old with every character lower-cased.
IsLowered(ext, old) == Len(ext) = Len(old) /\ \A i \in 1..Len(old) : ext[i] = LowerChar(old[i])

\* Every image d had is now in d under its position and its extension
\* lower-cased, one image per stem 1..N, and d holds the same files as before.
Numbered(d) ==
    /\ \A n \in ImagesIn(fs0, d) : \E m \in FilesIn(fs, d) :
          /\ fs[Join(d, m)].id = fs0[Join(d, n)].id
          /\ IsNumeral(SplitExt(m)[1], PositionOf(n, d))
          /\ IsLowered(SplitExt(m)[2], SplitExt(n)[2])
    /\ \A k \in 1..Cardinality(ImagesIn(fs0, d)) :
          Cardinality({ m \in ImagesIn(fs, d) : IsNumeral(SplitExt(m)[1], k) }) = 1
    /\ { fs[Join(d, m)].id : m \in FilesIn(fs, d) } = { fs0[Join(d, n)].id : n \in FilesIn(fs0, d) }

\* A sequential rename on the real disk, not cancelled, in which no rename failed.
RenameRan == last.op = "rename" /\ ~last.dry /\ ~last.stopped /\ ~last.errors

\* C5 as stated: after a sequential rename that was not cancelled, in every
\* directory whose image files have no numeric name the image at position k
\* of the sorted names is k.<extension lower-cased>, one file per stem 1..N,
\* and the directory holds the same files.
C5_NumberedWithoutNumericImages ==
    RenameRan =>
        \A d \in DirsWithImages(fs0) :
            (\A n \in ImagesIn(fs0, d) : ~NumericName(n)) => Numbered(d)

\* C5: the same, for every directory in which no entry at all, file or
\* folder, has a numeric name, in a run in which no rename failed.
C5_NumberedWithoutNumericNames ==
    RenameRan =>
        \A d \in DirsWithImages(fs0) :
            (\A n \in ChildNames(fs0, d) : ~NumericName(n)) => Numbered(d)

\* Two images, one with an upper-case extension, numbered 1 and 2.
C5_Witness ==
    /\ RenameRan /\ last.count = 2
    /\ \E d \in DirsWithImages(fs0) :
          /\ \A n \in ChildNames(fs0, d) : ~NumericName(n)
          /\ Cardinality(ImagesIn(fs0, d)) = 2
          /\ Join(d, << "2", ".", "p", "n", "g" >>) \in DOMAIN fs

---------------------------------------------------------------------------
(* C6 *)

\* C6: in a sequential rename on the real disk in which no rename failed, a
\* file whose target k.ext is taken is renamed to k_conflict_N.ext with the
\* smallest N >= 1 whose name is free, the entry at k.ext stays, and every
\* directory holds as many files as before.
C6_SmallestFreeSuffix ==
    (last.op = "rename" /\ ~last.dry /\ ~last.errors) =>
        /\ \A e \in EventsOf(last) : Contested(e) =>
              LET parts == SplitExt(BaseName(e.want))
              IN  /\ e.act = "renamed"
                  /\ e.firstFree >= 1
                  /\ BaseName(e.dst) = ConflictName(parts[1], e.firstFree, parts[2])
                  /\ Persists(e.wantId)
        /\ \A d \in { Parent(p) : p \in DOMAIN fs0 } :
              Cardinality(FilesIn(fs, d)) = Cardinality(FilesIn(fs0, d))

---------------------------------------------------------------------------
(* C7 *)

\* The run r met no conflict and no failure and left no "1" folder in place.
NoSkips(r) ==
    /\ ~r.errors
    /\ \A e \in EventsOf(r) : e.act \notin { "conflict", "failed", "kept" }
    /\ \A i \in DOMAIN r.log : r.log[i].lvl # "error"

\* An extraction on the real disk, not cancelled, with no conflict and no error.
CleanExtraction(r) == r.op = "extract" /\ ~r.dry /\ ~r.stopped /\ NoSkips(r)

OneFolders(f) == { p \in DOMAIN f : f[p].kind = "dir" /\ BaseName(p) = ONE }

\* The entries that were directly inside a folder named "1".
InsideOne(f) == { p \in DOMAIN f : Len(p) >= 2 /\ Parent(p) \in OneFolders(f) }

\* The path p without its components named "1".
WithoutOnes(p) == SelectSeq(p, LAMBDA n : n # ONE)

\* The tree f with every "1" folder dissolved into what holds it.
Flattened(f) ==
    LET kept == DOMAIN f \ OneFolders(f)
    IN  [ q \in { WithoutOnes(p) : p \in kept } |-> f[CHOOSE p \in kept : WithoutOnes(p) = q] ]

\* C7 as stated: after a clean extraction every entry that was inside a "1"
\* folder is in that folder's parent directory, no "1" folder that was
\* processed exists, the other entries are where they were, and the count is
\* the number of "1" folders deleted.
C7_MovedToParentOfOne ==
    CleanExtraction(last) =>
        /\ \A p \in InsideOne(fs0) \ OneFolders(fs0) :
              LET q == Join(Parent(Parent(p)), BaseName(p))
              IN  q \in DOMAIN fs /\ fs[q].id = fs0[p].id
        /\ \A p \in OneFolders(fs0) : fs0[p].id \notin IdsOf(fs)
        /\ \A p \in DOMAIN fs0 :
              (\A k \in 1..Len(p) : p[k] # ONE) => p \in DOMAIN fs /\ fs[p] = fs0[p]
        /\ last.count = Cardinality(OneFolders(fs0))

\* C7: after a clean extraction every entry is at its old path with the
\* components named "1" taken out (so an entry of a chain A/1/1 ends in A),
\* no "1" folder exists, and the count is the number of "1" folders deleted.
C7_Flattened ==
    CleanExtraction(last) =>
        /\ fs = Flattened(fs0)
        /\ OneFolders(fs) = {}
        /\ last.count = Cardinality(OneFolders(fs0))

\* A clean extraction that moved a folder with a file in it out of a "1"
\* folder, or dissolved a chain of two "1" folders.
C7_Witness ==
    /\ CleanExtraction(last)
    /\ \/ last.count = 2
       \/ \E e \in EventsOf(last) : e.act = "moved" /\ e.kind = "dir"
    /\ \E e \in EventsOf(last) : e.act = "moved" /\ e.kind = "file"

---------------------------------------------------------------------------
(* C8 *)

\* An extraction on the real disk that was not cancelled and had no call fail.
FullExtraction(r) == r.op = "extract" /\ ~r.dry /\ ~r.stopped /\ ~r.errors

\* C8 as stated: of two extractions in a row, the second leaves the tree as
\* the first left it and counts zero.
C8_SecondRunChangesNothing ==
    (FullExtraction(prev) /\ FullExtraction(last)) => (fs = fs0 /\ last.count = 0)

\* C8: of two extractions in a row, the first of which met no conflict and no
\* error, the second leaves the tree as the first left it and counts zero.
C8_SecondRunAfterCleanFirst ==
    (CleanExtraction(prev) /\ FullExtraction(last)) => (fs = fs0 /\ last.count = 0)

\* A second extraction after a clean first one that deleted a "1" folder.
C8_Witness ==
    /\ CleanExtraction(prev) /\ prev.count >= 1
    /\ FullExtraction(last) /\ last.count = 0
    /\ fs = fs0

---------------------------------------------------------------------------
(* C9 *)

\* The positions of name at which the phrase occurs.
Occurrences(name, req) == { i \in 1..Len(name) : MatchesAt(name, i, req) }

\* The occurrences removed: each one that no removed occurrence to its left
\* reaches into.
Removed(name, req) ==
    CHOOSE M \in SUBSET Occurrences(name, req) :
        \A i \in Occurrences(name, req) :
            i \in M <=> ~\E j \in M : j < i /\ i < j + Len(req.phrase)

\* The characters of name outside the removed occurrences.
Remaining(name, req) ==
    LET M == Removed(name, req)
        keep(k) == ~\E j \in M : j <= k /\ k < j + Len(req.phrase)
    IN  SelectSeq([ k \in 1..Len(name) |-> [at |-> k, ch |-> name[k]] ], LAMBDA c : keep(c.at))

\* s from its first to its last character that is not whitespace.
Trimmed(s) ==
    LET solid == { k \in 1..Len(s) : s[k] \notin WHITESPACE }
    IN  IF solid = {} THEN << >>
        ELSE SubSeq(s, CHOOSE a \in solid : \A k \in solid : a <= k,
                       CHOOSE b \in solid : \A k \in solid : k <= b)

\* The name with all occurrences of the phrase removed, then trimmed.
PhraseRemoved(name, req) ==
    LET rest == Remaining(name, req)
    IN  Trimmed([ k \in 1..Len(rest) |-> rest[k].ch ])

PhraseEvents(r) == { e \in EventsOf(r) : e.op = "phrase" }

\* C9: the name phrase removal computes for an entry is its name with all
\* occurrences of the phrase (case ignored when the toggle is off, matches of
\* the pattern in regex mode) removed and then trimmed; "_FINAL" taken
\* case-sensitively from "Photo_v2_FINAL.jpg" gives "Photo_v2.jpg".
C9_NameWithoutPhrase ==
    last.op = "phrase" =>
        \A e \in PhraseEvents(last) :
            /\ e.cand = PhraseRemoved(BaseName(e.src), last.req)
            /\ (BaseName(e.src) = PHOTO /\ last.req = PhraseReq(<< "_", "F", "I", "N", "A", "L" >>, TRUE, FALSE))
                  => e.target = << "P", "h", "o", "t", "o", "_", "v", "2", ".", "j", "p", "g" >>

\* The example, renamed on the disk.
C9_Witness ==
    /\ last.op = "phrase" /\ ~last.dry
    /\ \E e \in PhraseEvents(last) :
          /\ BaseName(e.src) = PHOTO /\ e.act = "renamed"
          /\ e.dst = << << "P", "h", "o", "t", "o", "_", "v", "2", ".", "j", "p", "g" >> >>
          /\ e.dst \in DOMAIN fs

---------------------------------------------------------------------------
(* C10 *)

\* C10: a file whose name before the extension is emptied by the removal is
\* renamed to "renamed_file" and its extension, and no entry is renamed to an
\* empty name or to its extension alone.
C10_EmptiedStemGetsSubstitute ==
    last.op = "phrase" =>
        \A e \in PhraseEvents(last) :
            e.act \in { "renamed", "simulated" } =>
                LET name == BaseName(e.src)
                IN  /\ (e.kind = "file" /\ PathSuffix(name) # << >>
                          /\ PhraseRemoved(PathStem(name), last.req) = << >>)
                        => e.target = RENAMED_FILE \o PathSuffix(name)
                    /\ e.target # << >>
                    /\ PathSuffix(name) # << >> => e.target # PathSuffix(name)

---------------------------------------------------------------------------
(* C11 *)

\* The pattern opens a group it never closes, which re.compile refuses.
UnclosedGroup(phrase) == \E i \in 1..Len(phrase) : phrase[i] = "("

\* The run r was turned away before it touched the disk: nothing listed, no
\* call made, nothing handled, zero returned.
TurnedAway(r) ==
    /\ ~r.listed /\ r.calls = 0
    /\ r.events = << >>
    /\ r.count = 0
    /\ r.pc = "rejected"

\* C11: phrase removal in regex mode with a pattern that does not compile
\* stops before it lists a directory or renames anything, logs the compile
\* error, returns 0 and leaves the filesystem as it was.
C11_BadPatternAborts ==
    (last.op = "phrase" /\ last.req.use_regex /\ UnclosedGroup(last.req.phrase)) =>
        /\ TurnedAway(last)
        /\ CountLog(last, "error", "bad_regex") = 1
        /\ fs = fs0

\* A real run with a pattern that does not compile, on a tree with a name the
\* phrase removal would otherwise have renamed.
C11_Witness ==
    /\ last.op = "phrase" /\ ~last.dry
    /\ last.req.use_regex /\ UnclosedGroup(last.req.phrase)
    /\ << Jpg(<< "a", "X" >>) >> \in DOMAIN fs
    /\ CountLog(last, "error", "bad_regex") = 1

---------------------------------------------------------------------------
(* C12 *)

\* Every character of s is whitespace or one of the separators.
Blank(s, separators) == \A i \in 1..Len(s) : s[i] \in WHITESPACE \cup separators

\* The request of r is a usage error: an empty phrase, a target list or a
\* folder list or a model list with nothing but blanks in it.
UsageError(r) ==
    \/ r.op = "phrase" /\ r.req.phrase = << >>
    \/ r.op = "urls" /\ Blank(r.req.names, { "," })
    \/ r.op \in { "folders", "paths" } /\ Blank(r.req.text, { })

\* The level of the last line r logged.
LastLevel(r) == r.log[Len(r.log)].lvl

\* A usage error is turned away before the disk is touched, with zero
\* returned and an empty result handed over by path generation.
Rejected(r) ==
    /\ TurnedAway(r)
    /\ r.op = "paths" => r.results = << [ok |-> << >>, err |-> << >>] >>
    /\ r.op # "paths" => r.results = << >>
    /\ Len(r.status) = 1 /\ r.status[1].pct = 0

\* C12 as stated: a usage error is turned away before any filesystem access
\* with a line of warning severity and a zero result.
C12_UsageErrorWarns ==
    UsageError(last) => Rejected(last) /\ fs = fs0 /\ LastLevel(last) = "warning"

\* C12: a usage error is turned away before any filesystem access with a zero
\* result; the line it logs is of warning severity, except for the empty
\* phrase, whose line is of error severity.
C12_UsageErrorRejected ==
    UsageError(last) =>
        /\ Rejected(last)
        /\ fs = fs0
        /\ LastLevel(last) = IF last.op = "phrase" THEN "error" ELSE "warning"

\* An empty phrase turned away on a tree that has entries, and logged as an error.
C12_Witness ==
    /\ last.op = "phrase" /\ ~last.dry
    /\ UsageError(last)
    /\ DOMAIN fs # { }
    /\ LastLevel(last) = "error"

---------------------------------------------------------------------------
(* C13 *)

\* The name ends with the shortcut extension.
ShortcutName(n) ==
    Len(n) >= 4 /\ SubSeq(n, Len(n) - 3, Len(n)) = << ".", "u", "r", "l" >>

\* The name without its last four characters.
WithoutExtension(n) == SubSeq(n, 1, Len(n) - 4)

\* The part of a shortcut name that is searched: the name without the
\* extension, and the whole name when the name is the extension alone.
Searched(n) == IF Len(n) > 4 THEN WithoutExtension(n) ELSE n

\* The targets of the comma-separated list: its parts, trimmed, blanks left out.
TargetsOf(names) ==
    { t \in { Trimmed(SubSeq(names, i, j)) : i \in 1..(Len(names) + 1), j \in 0..Len(names) } :
        /\ t # << >>
        /\ \E i \in 1..Len(names), j \in 1..Len(names) :
              /\ i <= j /\ t = Trimmed(SubSeq(names, i, j))
              /\ \A k \in i..j : names[k] # ","
              /\ i = 1 \/ names[i - 1] = ","
              /\ j = Len(names) \/ names[j + 1] = "," }

\* s as it is compared: lower-cased when the case toggle is off.
Folded(s, req) == IF req.case_sensitive THEN s ELSE [ k \in 1..Len(s) |-> LowerChar(s[k]) ]

\* t occurs in s.
OccursIn(t, s) == \E i \in 1..(Len(s) - Len(t) + 1) : \A k \in 1..Len(t) : s[i + k - 1] = t[k]

\* A shortcut deletion on the real disk, not cancelled, that logged no error.
CleanDeletion(r) ==
    /\ r.op = "urls" /\ ~r.dry /\ ~r.stopped
    /\ \A i \in DOMAIN r.log : r.log[i].lvl # "error"

\* The tree is fs0 without the files at the paths gone, and the count is
\* their number.
DeletedExactly(gone) ==
    /\ DOMAIN fs = DOMAIN fs0 \ gone
    /\ \A p \in DOMAIN fs : fs[p] = fs0[p]
    /\ last.count = Cardinality(gone)

\* C13 as stated: a clean shortcut deletion deletes exactly the files with the
\* shortcut extension whose name without the extension contains a target,
\* leaves everything else in place and returns the number deleted.
C13_DeletesByNameWithoutExtension ==
    CleanDeletion(last) =>
        DeletedExactly({ p \in DOMAIN fs0 :
            /\ fs0[p].kind = "file" /\ ShortcutName(BaseName(p))
            /\ \E t \in TargetsOf(last.req.names) :
                  OccursIn(Folded(t, last.req), Folded(WithoutExtension(BaseName(p)), last.req)) })

\* C13: a clean shortcut deletion deletes exactly the files whose name ends
\* with the shortcut extension and whose searched part (the name without the
\* extension; the whole name for a file named ".url") contains a target,
\* leaves everything else in place and returns the number deleted.
C13_DeletesBySearchedPart ==
    CleanDeletion(last) =>
        DeletedExactly({ p \in DOMAIN fs0 :
            /\ fs0[p].kind = "file" /\ ShortcutName(BaseName(p))
            /\ \E t \in TargetsOf(last.req.names) :
                  OccursIn(Folded(t, last.req), Folded(Searched(BaseName(p)), last.req)) })

\* A clean deletion that deleted two shortcuts, each by one of two targets,
\* and kept a file that is no shortcut and a folder.
C13_Witness ==
    /\ CleanDeletion(last) /\ last.count = 2
    /\ Cardinality(TargetsOf(last.req.names)) = 2
    /\ { << << ".", "u", "r", "l" >> >>, << << "a", "x", ".", "u", "r", "l" >> >> }
            \subseteq DOMAIN fs0 \ DOMAIN fs
    /\ \E p \in DOMAIN fs : fs[p].kind = "file" /\ ~ShortcutName(BaseName(p))
    /\ << DirS >> \in DOMAIN fs

---------------------------------------------------------------------------
(* C14 *)

\* The non-blank lines of a folder list, trimmed, in order.
LinesOf(text) == StrippedNonEmpty(SplitOn(Strip(text), "\n"))

\* n written in decimal, with zeros in front up to the width.
Padded(n, width) ==
    LET digits == Str(n)
    IN  [ k \in 1..(width - Len(digits)) |-> "0" ] \o digits

\* The path of the line at 0-based position i whose sanitized segments are
\* parts: the leading segments as they are, and the last one between the
\* prefix with the number and the suffix.
NamedPath(parts, i, req) ==
    LET number == IF req.use_numbering THEN Padded(i + req.start_num, req.padding) \o << "_" >>
                  ELSE << >>
    IN  SubSeq(parts, 1, Len(parts) - 1)
            \o << req.prefix \o number \o parts[Len(parts)] \o req.suffix >>

\* The request of the example: "Proj/Assets\nProj/Docs", prefix "P_",
\* numbering from 1, padding 2.
ExampleFolders ==
    FolderReq(<< "P", "r", "o", "j", "/", "A", "s", "s", "e", "t", "s", "\n",
                 "P", "r", "o", "j", "/", "D", "o", "c", "s" >>,
              << "P", "_" >>, << >>, TRUE, 1, 2)

P_01_Assets == << << "P", "r", "o", "j" >>, << "P", "_", "0", "1", "_", "A", "s", "s", "e", "t", "s" >> >>
P_02_Docs == << << "P", "r", "o", "j" >>, << "P", "_", "0", "2", "_", "D", "o", "c", "s" >> >>

\* C14: the path folder creation makes for the line at 0-based position i is
\* the sanitized leading segments followed by prefix, (i + start) padded with
\* zeros to the padding width and "_" (when numbering is on), the sanitized
\* last segment and the suffix; the example creates Proj/P_01_Assets and
\* Proj/P_02_Docs and returns 2.
C14_FolderNaming ==
    last.op = "folders" =>
        /\ \A k \in 1..Len(last.events) :
              LET e == last.events[k]
                  parts == SanitizedParts(LinesOf(last.req.text)[k])
              IN  /\ e.src = NamedPath(parts, k - 1, last.req)
                  /\ e.act = "created" => e.src \in DOMAIN fs /\ fs[e.src].kind = "dir"
        /\ (last.req = ExampleFolders /\ ~last.dry /\ ~last.stopped /\ ~last.errors
                /\ << DOCS >> \notin DOMAIN fs0) =>
              /\ last.count = 2
              /\ { P_01_Assets, P_02_Docs } \subseteq DOMAIN fs
              /\ fs[P_01_Assets].kind = "dir" /\ fs[P_02_Docs].kind = "dir"
              /\ DOMAIN fs \ DOMAIN fs0 \subseteq { << PROJ >>, P_01_Assets, P_02_Docs }

\* The example run on an empty root: three folders made, two counted.
C14_Witness ==
    /\ last.op = "folders" /\ last.req = ExampleFolders
    /\ ~last.dry /\ ~last.stopped /\ ~last.errors
    /\ fs0 = << >>
    /\ DOMAIN fs = { << << "P", "r", "o", "j" >> >>, P_01_Assets, P_02_Docs }
    /\ last.count = 2

---------------------------------------------------------------------------
(* C15 *)

\* The positions of the lines of which something survives sanitization.
LiveLines(text) ==
    { k \in 1..Len(LinesOf(text)) : SanitizedParts(LinesOf(text)[k]) # << >> }

\* C15: in a folder creation that is not cancelled every line is handled on
\* its own: a line of which nothing survives sanitization is skipped with a
\* warning, every other line is attempted (created, or its failure logged),
\* and in a real run every line after a skipped or failed one has its folder.
C15_EveryLineHandled ==
    (last.op = "folders" /\ ~last.stopped) =>
        LET lines == LinesOf(last.req.text)
            live == LiveLines(last.req.text)
        IN  /\ last.pc # "crashed"
            /\ Len(last.events) = Cardinality(live)
            /\ CountLog(last, "warning", "skipped_empty") = Len(lines) - Cardinality(live)
            /\ CountLog(last, "error", "critical") = 0
            /\ (~last.dry /\ ~last.errors) =>
                  \A k \in live : NamedPath(SanitizedParts(lines[k]), k - 1, last.req) \in DOMAIN fs

---------------------------------------------------------------------------
(* C16 *)

\* C16: every call of path generation hands its result to the result
\* callback exactly once, whether the list is empty, the run completes, is
\* cancelled part-way, or an exception is raised inside the loop.
C16_ResultExactlyOnce == last.op = "paths" => Len(last.results) = 1

---------------------------------------------------------------------------
(* C17: one operation in flight *)

\* The worker threads that are alive.
AliveThreads(h) == { i \in DOMAIN h.threads : h.threads[i].alive }

\* run_operation is called while a worker thread is alive.
RunRequestWhileAlive ==
    /\ host.dialogs = << >>
    /\ AliveThreads(host) # {}
    /\ \E op \in HostOps, valid \in BOOLEAN, filled \in BOOLEAN, dry \in BOOLEAN,
          todo \in 0..MaxItems :
          host' = Pressed(host, run_operation(host, op, valid, filled, dry, todo))

\* What the call leaves as it was: the threads, the current thread, the flag,
\* the counter, the timers, the widgets and the status.
NothingButADialog ==
    /\ host'.dialogs # host.dialogs
    /\ [host' EXCEPT !.dialogs = host.dialogs, !.pressed_disabled = host.pressed_disabled] = host

\* C17: At most one operation is in flight at any time: whatever the order of
\* run requests, stop requests, dialog answers, worker steps and timer ticks,
\* at most one worker thread is alive, and a run_operation call made while a
\* worker thread is alive starts no thread, leaves the cancellation flag as it
\* is and changes nothing else the running operation or its completion
\* depends on (it only shows a message box).
C17_OneOperationInFlight ==
    /\ [](Cardinality(AliveThreads(host)) <= 1)
    /\ [][RunRequestWhileAlive => NothingButADialog]_vars

\* A run request is being turned away while the worker is alive and the
\* cancellation flag, set by a confirmed stop request, is still set.
C17_Witness ==
    /\ host.dialogs # << >>
    /\ host.dialogs[Len(host.dialogs)].kind = "busy"
    /\ AliveThreads(host) = { host.current_thread }
    /\ host.stop_event
    /\ Len(host.threads) = 2

---------------------------------------------------------------------------
(* C18: cooperative cancellation *)

\* The inputs of the last run, and the same run had the flag never been set.
LastCfg == Cfg(last.dry, last.stopAt, last.failAt, lsorder, rootslash)
NeverStopped == RunOf(last.op, fs0, [LastCfg EXCEPT !.stopAt = -1], last.req)

IsPrefix(s, t) == Len(s) <= Len(t) /\ SubSeq(t, 1, Len(s)) = s

\* An event that changed the disk.
Mutation(e) == e.act \in { "moved", "rmdir", "renamed", "deleted", "created" }

\* An event the returned count includes: a folder "1" removed, a file
\* renamed or deleted, a folder created, really or in a dry run.
Counted(e) ==
    IF e.op = "extract" THEN e.act \in { "rmdir", "rmdir_simulated" }
    ELSE e.act \in { "renamed", "deleted", "created", "simulated" }

\* The log line of a loop check that saw the flag set.
CancelLine(m) == m.lvl = "warning" /\ m.key \in { "cancelled", "cancelled_moving", "cancelled_renaming" }

\* The completed mutation e still shows in the tree t: what was moved or
\* renamed is not back at its source, what was removed is gone, what was
\* created is there.
StillDone(e, t) ==
    CASE e.act \in { "moved", "renamed" } ->
             /\ e.srcId \in IdsOf(t)
             /\ ~(e.src \in DOMAIN t /\ t[e.src].id = e.srcId)
      [] e.act \in { "rmdir", "deleted" } -> e.srcId \notin IdsOf(t)
      [] e.act = "created" -> IsDir(t, e.dst)
      [] OTHER -> TRUE

\* C18: Cooperative cancellation.  The flag is read at the top of every loop
\* iteration and an item is handled only after a read that found it clear:
\* a run in which the flag is set after stopAt reads handles at most stopAt
\* items, what it did is the beginning of what the same run does when never
\* cancelled, the returned count is the count of what it did, and every
\* mutation it completed is still in the tree when it returns.
C18_CooperativeCancellation ==
    (last.op # "none" /\ last.stopAt >= 0) =>
        /\ Len(last.events) <= last.stopAt
        /\ LET whole == NeverStopped
           IN  IsPrefix(last.events, whole.events) /\ last.count <= whole.count
        /\ last.count = Cardinality({ i \in DOMAIN last.events : Counted(last.events[i]) })
        /\ \A i \in DOMAIN last.events :
              Mutation(last.events[i]) => StillDone(last.events[i], fs)
        /\ (\E i \in DOMAIN last.log : CancelLine(last.log[i])) =>
              /\ last.stopped
              /\ last.pc \in { "returned", "broke" }

\* An extraction was cancelled between two moves: one item was moved and
\* stays moved, the rest of the run was not done and nothing was counted.
C18_Witness ==
    /\ last.op = "extract"
    /\ ~last.dry
    /\ last.stopped
    /\ \E i \in DOMAIN last.log : CancelLine(last.log[i])
    /\ \E i \in DOMAIN last.events : last.events[i].act = "moved"
    /\ Len(last.events) < Len(NeverStopped.events)
    /\ last.count = 0
    /\ NeverStopped.count > 0
    /\ fs # fs0

---------------------------------------------------------------------------
(* C19: how the progress callbacks of a run end *)

FinalStatus(r) == r.status[Len(r.status)]

DONE_100 == [key |-> "done", pct |-> 100]
CANCELLED_0 == [key |-> "cancelled", pct |-> 0]

\* A loop check of the run saw the flag set.
SeenByLoop(r) == \E i \in DOMAIN r.log : CancelLine(r.log[i])

\* The run made the "done" callback at 100%.
ReportsDone(r) == \E i \in DOMAIN r.status : r.status[i] = DONE_100

\* C19 as stated: every run in which the flag is never found set ends with a
\* progress callback at 100%, and every run in which a loop check found it set
\* ends with the cancelled callback at 0%.
C19_EndsAt100UnlessCancelled ==
    last.op # "none" =>
        /\ ~last.stopped => last.status # << >> /\ FinalStatus(last).pct = 100
        /\ SeenByLoop(last) => FinalStatus(last) = CANCELLED_0

\* C19: Progress reporting.  A run turned away for a usage error or a bad
\* pattern ends with its error callback at 0% and none at 100%; a run in which
\* a loop check saw the flag set ends with the cancelled callback at 0% and no
\* "done" callback; a path generation aborted by an unexpected exception ends
\* with the error callback at 0%; a run whose flag is found set only by the
\* check that follows the loop makes no "done" callback; every other run ends
\* with the "done" callback at 100%.
C19_HowProgressEnds ==
    last.op # "none" =>
        CASE last.pc = "rejected" ->
                 Len(last.status) = 1 /\ FinalStatus(last).pct = 0
          [] last.pc # "rejected" /\ SeenByLoop(last) ->
                 FinalStatus(last) = CANCELLED_0 /\ ~ReportsDone(last)
          [] last.pc = "crashed" /\ last.op = "paths" /\ ~SeenByLoop(last) ->
                 FinalStatus(last) = [key |-> "error", pct |-> 0] /\ ~ReportsDone(last)
          [] OTHER ->
                 IF last.stopped THEN ~ReportsDone(last)
                 ELSE last.status # << >> /\ FinalStatus(last) = DONE_100

\* A run was cancelled after a progress callback above 0%: it ends with the
\* cancelled callback at 0%.
C19_Witness ==
    /\ last.op # "none"
    /\ SeenByLoop(last)
    /\ FinalStatus(last) = CANCELLED_0
    /\ \E i \in DOMAIN last.status : last.status[i].pct > 0
    /\ last.count > 0

---------------------------------------------------------------------------
(* C20: a failing filesystem call does not abort the run *)

\* The last run, never cancelled, in which the move, rename, delete or
\* directory creation number failAt raised OSError.
OneCallFailed(r) ==
    /\ r.op \in { "extract", "rename", "phrase", "urls", "folders" }
    /\ r.stopAt = -1
    /\ r.failAt > 0
    /\ r.errors

\* The same run had no call been made to fail.
NeverFailed == RunOf(last.op, fs0, [LastCfg EXCEPT !.failAt = 0], last.req)

\* The items a run handled, in order.
Sources(events) == [ i \in DOMAIN events |-> events[i].src ]

\* The log line of a call that raised OSError.
FailureLine(m) ==
    /\ m.lvl = "error"
    /\ m.key \in { "move_failed", "rmdir_failed", "rename_failed", "delete_failed",
                   "create_failed" }

FailureLines(log) == Cardinality({ i \in DOMAIN log : FailureLine(log[i]) })

\* The first event of a call that failed, or 0.
FirstFailed(events) ==
    IF \E i \in DOMAIN events : events[i].act = "failed"
    THEN CHOOSE i \in DOMAIN events :
            events[i].act = "failed" /\ \A j \in 1..(i - 1) : events[j].act # "failed"
    ELSE 0

\* Every item that the folder of the failed move held is handled.
SamePassHandled(events, clean) ==
    LET k == FirstFailed(events)
    IN  k # 0 =>
          \A j \in DOMAIN clean :
              Parent(clean[j].src) = Parent(events[k].src) =>
                  \E i \in DOMAIN events : events[i].src = clean[j].src

\* C20: Non-fatal per-item failures.  In extraction, sequential rename, phrase
\* removal, shortcut deletion and folder creation, when one move, rename,
\* delete or directory creation raises OSError, the error is logged, the run
\* ends as it would have ended without the failure, with the same progress
\* callbacks for the same directories and items; in rename, phrase removal,
\* shortcut deletion and folder creation exactly the same items are handled,
\* and in extraction every item of the folder of the failed move, and every
\* folder "1"; the failed item is not counted.
C20_FailureIsNotFatal ==
    OneCallFailed(last) =>
        LET clean == NeverFailed
        IN  /\ last.pc = clean.pc
            /\ last.status = clean.status
            /\ FailureLines(last.log) >= 1
            /\ last.op # "extract" => Sources(last.events) = Sources(clean.events)
            /\ last.op = "extract" => SamePassHandled(last.events, clean.events)
            /\ last.count = Cardinality({ i \in DOMAIN last.events : Counted(last.events[i]) })
            /\ \A i \in DOMAIN last.events :
                  last.events[i].act = "failed" => ~Counted(last.events[i])
            /\ last.count <= clean.count

\* The first of three shortcuts could not be deleted: the other two were
\* deleted and counted, and the run ended with its 100% callback.
C20_Witness ==
    /\ last.op = "urls"
    /\ OneCallFailed(last)
    /\ last.failAt = 1
    /\ Len(last.events) = 3
    /\ last.events[1].act = "failed"
    /\ last.events[2].act = "deleted"
    /\ last.events[3].act = "deleted"
    /\ last.count = 2
    /\ FinalStatus(last) = DONE_100

---------------------------------------------------------------------------
(* C21: when the suffix search gives up *)

\* The suffixes 1 .. 100 of the target of e were all taken when e was reached.
AllSuffixesTaken(e) == e.firstFree \notin 1..CONFLICT_LIMIT

\* C21: sequential rename abandons a file (an error line, the file left under
\* its old name and not counted) only if k_conflict_1.ext .. k_conflict_100.ext
\* all exist; whenever one of those 100 names is free the file is given the
\* lowest free one.
C21_AbandonsOnlyAfter100 ==
    last.op = "rename" =>
        \A e \in EventsOf(last) :
            /\ e.act = "abandoned" => AllSuffixesTaken(e)
            /\ (Contested(e) /\ ~AllSuffixesTaken(e)) =>
                  LET parts == SplitExt(BaseName(e.want))
                  IN  /\ e.act \in { "renamed", "simulated", "failed" }
                      /\ BaseName(e.dst) = ConflictName(parts[1], e.firstFree, parts[2])

---------------------------------------------------------------------------
(* C22: a "1" folder is deleted and counted only when it is empty *)

\* The events of an extraction at which a "1" folder was deleted, or would
\* have been in a dry run.
Deletions(r) == { i \in DOMAIN r.events : r.events[i].act \in { "rmdir", "rmdir_simulated" } }

\* The event of an entry of a "1" folder that was left where it was.
LeftBehind(e) == e.op = "extract" /\ e.act \in { "conflict", "failed" }

\* Event k closes the handling of the "1" folder that the entry of event j is in.
ClosesFolderOf(r, j, k) ==
    /\ k > j
    /\ r.events[k].act \in { "rmdir", "rmdir_simulated", "kept" }
    /\ r.events[k].src = Parent(r.events[j].src)

\* C22: extraction deletes a "1" folder, and counts it, only if the folder is
\* empty after the move attempts; if an entry was skipped for a conflict or
\* failed to move, the folder is kept with a warning, the entry is still in
\* it, the folder is not counted and is still on the disk at the end.
C22_DeletedOnlyWhenEmpty ==
    last.op = "extract" =>
        /\ last.count = Cardinality(Deletions(last))
        /\ \A i \in Deletions(last) :
              /\ last.events[i].inside = {}
              /\ last.events[i].act = "rmdir" => last.events[i].srcId \notin IdsOf(fs)
        /\ \A j \in DOMAIN last.events : LeftBehind(last.events[j]) =>
              /\ last.stopped \/ \E k \in DOMAIN last.events : ClosesFolderOf(last, j, k)
              /\ \A k \in DOMAIN last.events : ClosesFolderOf(last, j, k) =>
                    /\ last.events[k].act = "kept"
                    /\ last.events[j].srcId \in last.events[k].inside
                    /\ last.events[k].srcId \in IdsOf(fs)
                    /\ CountLog(last, "warning", "not_empty") >= 1

\* A real run that kept one "1" folder for a conflict and deleted another.
C22_Witness ==
    /\ last.op = "extract" /\ ~last.dry /\ last.count >= 1
    /\ \E j, k \in DOMAIN last.events :
          /\ last.events[j].act = "conflict"
          /\ ClosesFolderOf(last, j, k)
          /\ last.events[k].act = "kept"

---------------------------------------------------------------------------
(* C23: extraction handles the deepest candidates first *)

\* The candidate directories of a run in the order in which they were handled.
Processed(r) ==
    LET found == SelectSeq(r.log, LAMBDA m : m.key = "found")
    IN  [ i \in 1..Len(found) |-> Parent(found[i].arg) ]

\* d holds nothing but a "1" folder that holds nothing but a "1" folder of files.
ChainAt(f, d) ==
    /\ IsDir(f, Join(Join(d, ONE), ONE))
    /\ ChildNames(f, d) = { ONE }
    /\ ChildNames(f, Join(d, ONE)) = { ONE }
    /\ ChildNames(f, Join(Join(d, ONE), ONE)) # {}
    /\ \A n \in ChildNames(f, Join(Join(d, ONE), ONE)) : IsFile(f, Join(Join(Join(d, ONE), ONE), n))

\* The files of the chain at d are directly in d, and nothing else is.
ChainFlattened(d) ==
    Inside(fs, d) = Inside(fs0, Join(Join(d, ONE), ONE))

\* C23: extraction handles a directory with a "1" child after every candidate
\* directory below it, so a chain d/1/1/x is flattened completely by one real
\* run that is not disturbed, and the "1" folder of every candidate recorded
\* at the start can still be listed when the candidate is reached.
C23_DeepestFirst ==
    last.op = "extract" =>
        /\ \A i, j \in DOMAIN Processed(last) :
              i < j => ~IsUnder(Processed(last)[i], Processed(last)[j])
        /\ CountLog(last, "error", "read_failed") = 0
        /\ (~last.dry /\ Undisturbed(last)) =>
              \A d \in { Root } \cup { p \in DOMAIN fs0 : IsDir(fs0, p) } :
                  ChainAt(fs0, d) => ChainFlattened(d)

---------------------------------------------------------------------------
(* C24: phrase removal reaches an entry before its ancestors *)

\* Event j of the run renamed a directory that the entry of event i is under.
RenamedAbove(r, j, i) ==
    /\ j < i
    /\ r.events[j].act = "renamed"
    /\ IsUnder(r.events[j].src, r.events[i].src)

\* The path of event i, recorded at enumeration, is the entry it was then.
StillRefers(r, i) ==
    /\ r.events[i].src \in DOMAIN fs0
    /\ r.events[i].srcId = fs0[r.events[i].src].id

\* C24: a phrase removal on the real disk handles the entries in order of
\* decreasing length of the full path string, so every entry is handled
\* before each of its ancestor directories: when an entry is checked and
\* renamed no ancestor of it was renamed earlier in the pass, and the path
\* recorded at enumeration still refers to that entry.
C24_ChildrenBeforeAncestors ==
    (last.op = "phrase" /\ ~last.dry) =>
        \A i \in DOMAIN last.events :
            /\ \A j \in DOMAIN last.events :
                  /\ j < i => PathStrLen(last.events[j].src) >= PathStrLen(last.events[i].src)
                  /\ j < i => ~IsUnder(last.events[j].src, last.events[i].src)
                  /\ ~RenamedAbove(last, j, i)
            /\ StillRefers(last, i)

\* A file was renamed inside a folder, and the folder was renamed after it.
C24_Witness ==
    /\ last.op = "phrase" /\ ~last.dry
    /\ \E i, j \in DOMAIN last.events :
          /\ i < j
          /\ last.events[i].act = "renamed" /\ last.events[j].act = "renamed"
          /\ IsUnder(last.events[j].src, last.events[i].src)
          /\ StillRefers(last, i)

---------------------------------------------------------------------------
(* C25: what phrase removal counts *)

\* The events of run r with one of the given outcomes.
EventsWith(r, acts) == { i \in DOMAIN r.events : r.events[i].act \in acts }

\* The entries that carry another name after the run than before it.
RenamedOnDisk ==
    { id \in IdsOf(fs0) \cap IdsOf(fs) : BaseName(PathOfId(fs, id)) # BaseName(PathOfId(fs0, id)) }

\* The lines of the log about the rename of one entry.
RenameLines(r) ==
    { i \in DOMAIN r.log : r.log[i].key \in { "renamed", "conflict", "rename_failed" } }

---------------------------------------------------------------------------
(* C26: one output line for every model name *)

\* The model names of a request, as the operation splits them.
ModelList(req) == StrippedNonEmpty(SplitOn(Strip(req.text), "\n"))

\* How many model names the loop of run r took up.
ModelsProcessed(r) ==
    Cardinality({ i \in DOMAIN r.status : r.status[i].key = "checking" })

\* The success lines and the error lines of run r.
SuccessLines(r) == IF r.results = << >> THEN << >> ELSE r.results[1].ok
ErrorLines(r) == IF r.results = << >> THEN << >> ELSE r.results[1].err

\* The folder of the model name exists in f and has an image file directly in it.
HasImages(f, model_name) ==
    /\ IsDir(f, Join(Root, model_name))
    /\ \E n \in ChildNames(f, Join(Root, model_name)) :
          IsImageName(n) /\ IsFile(f, Join(Join(Root, model_name), n))

\* C26: path generation puts out one line for every model name it takes up:
\* a success line if and only if the folder of that name exists under the
\* root and directly holds a regular file with an image extension, an error
\* line otherwise; the success lines and the error lines are together as many
\* as the model names taken up before the run completed or was cancelled.
C26_OneLinePerModel ==
    (last.op = "paths" /\ last.pc # "rejected") =>
        /\ Len(SuccessLines(last)) + Len(ErrorLines(last)) = ModelsProcessed(last)
        /\ ~last.errors =>
              \A k \in 1..ModelsProcessed(last) :
                  LET model_name == ModelList(last.req)[k]
                  IN  /\ HasImages(fs0, model_name)
                         <=> \E i \in DOMAIN SuccessLines(last) : SuccessLines(last)[i].model = model_name
                      /\ ~HasImages(fs0, model_name)
                         <=> \E i \in DOMAIN ErrorLines(last) : ErrorLines(last)[i].model = model_name

---------------------------------------------------------------------------
(* C27: sequential rename run on its own output *)

\* The image files of d in f are named 1.ext .. N.ext, one for each number,
\* with the extension in lower case.
OwnOutput(f, d) ==
    /\ \A n \in ImagesIn(f, d) :
          /\ SplitExt(n)[2] = Lower(SplitExt(n)[2])
          /\ \E k \in 1..Cardinality(ImagesIn(f, d)) : IsNumeral(SplitExt(n)[1], k)
    /\ \A k \in 1..Cardinality(ImagesIn(f, d)) :
          Cardinality({ n \in ImagesIn(f, d) : IsNumeral(SplitExt(n)[1], k) }) = 1

\* The events of the last run for the entries of directory d.
EventsIn(d) == { e \in EventsOf(last) : Parent(e.src) = d }

\* The run left directory d as it was: no file renamed, no suffix name made.
LeftAsItWas(d) ==
    /\ \A e \in EventsIn(d) : e.act = "same"
    /\ \A n \in ChildNames(fs0, d) :
          Join(d, n) \in DOMAIN fs /\ fs[Join(d, n)] = fs0[Join(d, n)]
    /\ ChildNames(fs, d) = ChildNames(fs0, d)

\* A run on the real disk of a tree all of whose image directories are the
\* operation's own output, each with at most most images.
OnOwnOutput(most) ==
    /\ last.op = "rename" /\ ~last.dry
    /\ \A d \in DirsWithImages(fs0) :
          OwnOutput(fs0, d) /\ Cardinality(ImagesIn(fs0, d)) <= most

\* C27 as stated: a sequential rename on the real disk of a directory whose
\* image files are named 1.ext .. N.ext already, for any N, renames no file,
\* makes no _conflict_ name and returns 0.
C27_StableForAnyN ==
    OnOwnOutput(CONFLICT_LIMIT) =>
        /\ last.count = 0
        /\ fs = fs0
        /\ \A d \in DirsWithImages(fs0) : LeftAsItWas(d)

\* C27: the same for directories of at most 9 image files, in which the
\* order of the names is the order of the numbers.
C27_StableUpTo9 ==
    OnOwnOutput(9) =>
        /\ last.count = 0
        /\ fs = fs0
        /\ \A d \in DirsWithImages(fs0) : LeftAsItWas(d)

\* A second run in a row, on nine numbered files or on what the first run
\* numbered, that found every file under its target name.
C27_Witness ==
    /\ OnOwnOutput(9)
    /\ \E e \in EventsOf(last) : e.act = "same"
    /\ \/ Cardinality(DOMAIN fs0) = 9
       \/ prev.op = "rename" /\ ~prev.dry /\ prev.count >= 2

---------------------------------------------------------------------------
(* C28: the progress callbacks of a run aborted by an exception *)

ERROR_0 == [key |-> "error", pct |-> 0]

\* The run was aborted by an exception that the outer handler caught.
Aborted(r) == r.pc = "crashed"

\* C28: a run aborted by an unexpected exception and not cancelled reports
\* the failure status at 0% as its last progress status: no "done" status at
\* 100% follows the failure status.
C28_FailureStatusIsLast ==
    (Aborted(last) /\ ~last.stopped) =>
        /\ FinalStatus(last) = ERROR_0
        /\ \A i, j \in DOMAIN last.status :
              (last.status[i] = ERROR_0 /\ i < j) => last.status[j] # DONE_100

---------------------------------------------------------------------------
(* C29: a stop request does not reach a later operation *)

\* Worker i entered its operation with the cancellation flag set.
BeganCancelled(h, i) == h.threads[i].begun /\ h.threads[i].set_at_begin

\* Worker i was cancelled by a flag set for another thread.
CancelledByOther(h, i) == h.threads[i].cancelled /\ h.threads[i].by # i

\* C29: a stop request never cancels a later operation.  Whatever the order
\* of run requests, stop requests (one confirmed after its worker has finished
\* included), dialog answers, worker steps and timer ticks, in each of the
\* three hosts every worker enters its operation with the cancellation flag
\* clear, and a worker that ends cancelled was cancelled by a request made
\* while it was the current thread.
C29_StopNeverReachesLaterOperation ==
    \A i \in DOMAIN host.threads : ~BeganCancelled(host, i) /\ ~CancelledByOther(host, i)

\* The stop request for the first worker was confirmed after that worker had
\* finished; the second worker has entered its operation since, and the flag
\* is clear.
C29_Witness ==
    /\ Len(host.threads) = 2
    /\ host.stop_target = 1
    /\ ~host.threads[1].alive /\ ~host.threads[1].cancelled
    /\ host.threads[2].begun /\ host.threads[2].alive /\ host.threads[2].count >= 1
    /\ ~host.stop_event

---------------------------------------------------------------------------
(* C30: the lifecycle of the host *)

\* A host with the completion poller, in which every run request so far came
\* from a run button that was enabled.
Polled(h) == h.variant \in { "main_window", "SUPER" } /\ ~h.pressed_disabled

\* The worker of the current thread has ended and the poller has not yet
\* finished with it.
Ended(h) == h.current_thread # 0 /\ ~h.threads[h.current_thread].alive

\* The controls are enabled and no thread is referred to.
Released(h) == h.current_thread = 0 /\ h.ui_active /\ ~h.stop_btn

\* Worker i ended with an exception: it is dead with iterations left to make
\* and was not cancelled.
Raised(h, i) == ~h.threads[i].alive /\ ~h.threads[i].cancelled /\ h.threads[i].todo > 0

\* The controls are disabled exactly while a thread is referred to, and the
\* summary of a run is shown at most once, and not for a cancelled run.
LifecycleKept(h) ==
    /\ h.current_thread # 0 => ~h.ui_active
    /\ h.current_thread = 0 => h.ui_active /\ ~h.stop_btn
    /\ \A i \in DOMAIN h.threads :
          /\ h.threads[i].summaries <= 1
          /\ h.threads[i].cancelled => h.threads[i].summaries = 0
          /\ h.threads[i].alive => h.threads[i].summaries = 0 /\ h.current_thread = i

====
